---- MODULE Spec2Model ----
(***************************************************************************)
(* Model of the interactive debugging core of noir-playground-server       *)
(* (src/src/debug/debug.service.ts, class DebugService, second revision    *)
(* in the file, lines 946-2158).                                           *)
(*                                                                         *)
(* Execution model: Node.js, single-threaded.  A macrotask (stdout 'data', *)
(* process 'exit', a timer, completion of a file-system or exec call, the  *)
(* entry of an HTTP-driven service call) runs alone, and every promise     *)
(* continuation it makes ready (a microtask) runs before the next          *)
(* macrotask.  Each action below is either one macrotask, guarded by       *)
(* Quiescent, or one continuation of an async function from a settled      *)
(* await up to its next pending await.                                     *)
(***************************************************************************)
EXTENDS Integers, Sequences, FiniteSets, TLC

\* ------------------------------------------------------------------ bounds
LifeSlots   == 1        \* terminateSession calls in flight per session (Spec)
StepSlots   == 1        \* executeStep calls in flight per session (SpecStep)
CorrSlots   == 2        \* setBreakpoints calls in flight per session (SpecCorr)
MaxSeq      == 6        \* highest seq a service call may start with
MaxNow      == 2        \* clock ticks
JsonLen     == 2        \* characters of one JSON payload

\* ------------------------------------------------------ program constants
SESSION_TIMEOUT_MS == 600000
TickMs             == 600000      \* granularity at which the model reads Date
NULL               == -1          \* dapProcess.exitCode === null
NoSignal           == "null"      \* dapProcess.signalCode === null

Max(a, b) == IF a > b THEN a ELSE b

\* Sessions share nothing but the registry map; the development follows the
\* life of one session id (one randomUUID value).  A second id stays unused
\* except in SpecPair, where two sessions run side by side.
SessionIds == {1, 2}
Primary    == {1}
NumSlots   == Max(LifeSlots, Max(StepSlots, CorrSlots))
Slots      == 0..NumSlots         \* slot 0 is the startSession invocation
CallSlots  == 1..NumSlots
Orphan     == -1                  \* listener whose promise is already settled

\* ---------------------------------------------------------------- messages
NoMsg == [type |-> "none", event |-> "", request_seq |-> 0, command |-> "",
          success |-> FALSE, body |-> 0, cause |-> 0]

DAPResponse(req, ok, b) ==
    [type |-> "response", event |-> "", request_seq |-> req.seq,
     command |-> req.command, success |-> ok, body |-> b, cause |-> 0]

\* a 'stopped' event; cause identifies the request that made the debuggee run
StoppedEvent(c) ==
    [type |-> "event", event |-> "stopped", request_seq |-> 0, command |-> "",
     success |-> FALSE, body |-> 0, cause |-> c]

\* the 'initialized' event of the protocol
InitializedEvent ==
    [type |-> "event", event |-> "initialized", request_seq |-> 0, command |-> "",
     success |-> FALSE, body |-> 0, cause |-> 0]

DAPRequest(n, cmd) == [seq |-> n, command |-> cmd]

\* ------------------------------------------------------------ byte strings
\* A string is a sequence of tokens: a header token stands for the text
\* "Content-Length: n\r\n\r\n", a character token for the i-th character of
\* the JSON text of message m.
Hdr(n)    == [k |-> "H", n |-> n, m |-> NoMsg, i |-> 0]
Chr(m, i) == [k |-> "C", n |-> 0, m |-> m, i |-> i]

JSONstringify(m) == [i \in 1..JsonLen |-> Chr(m, i)]

\* JSON.parse: the text of exactly one message, else a SyntaxError (NoMsg)
JSONparse(str) ==
    IF /\ Len(str) = JsonLen
       /\ \A i \in 1..JsonLen :
            str[i].k = "C" /\ str[i].i = i /\ str[i].m = str[1].m
    THEN str[1].m
    ELSE NoMsg

Min(a, b) == IF a < b THEN a ELSE b

substring(str, from, to) ==      \* JS substring, 0-based, end exclusive, clamped
    SubSeq(str, Min(from, Len(str)) + 1, Min(to, Len(str)))

\* result bodies whose JSON text holds a character outside ASCII (here: as its
\* first character), which UTF-8 encodes in two bytes
WideBodies == {3}

\* Buffer.byteLength(json, 'utf-8')
byteLength(json) ==
    Len(json) + Cardinality({i \in 1..Len(json) :
                                json[i].k = "C" /\ json[i].i = 1 /\ json[i].m.body \in WideBodies})

formatDAPMessage(m) == <<Hdr(byteLength(JSONstringify(m)))>> \o JSONstringify(m)

\* index (0-based) of the first header in data, or -1
HeaderIndex(data) ==
    IF \E i \in 1..Len(data) : data[i].k = "H"
    THEN (CHOOSE i \in 1..Len(data) :
             data[i].k = "H" /\ \A j \in 1..(i-1) : data[j].k # "H") - 1
    ELSE -1

parseDAPMessage(data) ==
    LET h == HeaderIndex(data) IN
    IF h = -1 THEN NoMsg
    ELSE LET contentLength  == data[h + 1].n
             headerEndIndex == h + 1
         IN  JSONparse(substring(data, headerEndIndex, headerEndIndex + contentLength))

RECURSIVE parseAllDAPMessages(_)
parseAllDAPMessages(data) ==
    IF Len(data) = 0 THEN <<>>
    ELSE LET h == HeaderIndex(data) IN
         IF h = -1 THEN <<>>
         ELSE LET contentLength  == data[h + 1].n
                  headerEndIndex == h + 1
                  message == JSONparse(substring(data, headerEndIndex,
                                                 headerEndIndex + contentLength))
              IN  IF message = NoMsg THEN <<>>
                  ELSE <<message>> \o
                       (CHOOSE rest \in
                           {parseAllDAPMessages(remaining) : remaining \in
                               {substring(data, headerEndIndex + contentLength, Len(data))}} :
                           TRUE)

\* variant: only a response that reports success is taken
FindResponseSuccessOnly(messages, requestSeq) ==
    LET hit == {i \in 1..Len(messages) :
                   /\ messages[i].type = "response"
                   /\ messages[i].request_seq = requestSeq
                   /\ messages[i].success}
    IN  IF hit = {} THEN NoMsg
        ELSE messages[CHOOSE i \in hit : \A j \in hit : i <= j]

\* Array.prototype.find over a message list
FindResponse(messages, requestSeq) ==
    LET hit == {i \in 1..Len(messages) :
                  messages[i].type = "response" /\ messages[i].request_seq = requestSeq}
    IN  IF hit = {} THEN NoMsg
        ELSE messages[CHOOSE i \in hit : \A j \in hit : i <= j]

FindStopped(messages) ==
    LET hit == {i \in 1..Len(messages) :
                  messages[i].type = "event" /\ messages[i].event = "stopped"}
    IN  IF hit = {} THEN NoMsg
        ELSE messages[CHOOSE i \in hit : \A j \in hit : i <= j]

\* ------------------------------------------------------------------- state
VARIABLES
    sessions,        \* keys of this.sessions
    initialized,     \* session.initialized
    completed,       \* session.completed
    seq,             \* session.seq
    lastActivity,    \* session.lastActivity
    outputBuffer,    \* session['outputBuffer']
    lastVariables,   \* session.lastVariables (0: undefined)
    lastWitnesses,   \* session.lastWitnesses (0: undefined)
    breakpoints,     \* session.breakpoints (<<>>: undefined or empty)
    workspace,       \* the session's workspace directory on disk
    cleanups,        \* cleanupWorkspace calls completed on the directory
    spawned,         \* the dap subprocess was spawned
    exitCode,        \* dapProcess.exitCode
    signalCode,      \* dapProcess.signalCode
    signals,         \* signals sent to the subprocess with kill()
    stdin,           \* requests written to the subprocess
    answered,        \* seqs of the requests the subprocess has answered
    owed,            \* requests after which the debuggee still has to stop
    stdout,          \* bytes the subprocess wrote, not yet read
    listeners,       \* 'data' listeners that calls and waits put on stdout
    graceTimer,      \* the 30 s timer set by the 'exit' handler is pending
    cleanupInterval, \* the setInterval of the constructor is active
    now,             \* Date.now()
    task             \* async invocations: task[s][k] is a frame

vars == <<sessions, initialized, completed, seq, lastActivity, outputBuffer,
          lastVariables, lastWitnesses, breakpoints, workspace, cleanups, spawned, exitCode, signalCode,
          signals, stdin, answered, owed, stdout, listeners, graceTimer,
          cleanupInterval, now, task>>

sessionVars == <<initialized, completed, lastActivity, lastVariables, lastWitnesses,
                breakpoints>>
procVars    == <<spawned, exitCode, signalCode, signals, answered, owed, stdout>>
fsVars      == <<workspace, cleanups>>
timeVars    == <<graceTimer, cleanupInterval, now>>

\* ------------------------------------------------------------------ frames
NoResult == [success |-> FALSE, error |-> "", reason |-> "", cause |-> 0, req |-> 0,
             value |-> 0]

\* a returned result: success, error, state.reason, the stopped event the state
\* was taken from, the seq of the step request, variables / witnesses
Result(ok, err, reason, cause, req) ==
    [success |-> ok, error |-> err, reason |-> reason, cause |-> cause, req |-> req,
     value |-> 0]

IdleFrame ==
    [op |-> "idle", pc |-> "idle", await |-> "none", val |-> NoMsg, reqSeq |-> 0,
     preExit |-> FALSE, ev |-> NoMsg, stepSeq |-> 0, result |-> NoResult]

NewFrame(op) == [IdleFrame EXCEPT !.op = op]

Free(f)   == f.pc \in {"idle", "returned"}
Active(f) == ~Free(f)
Ready(f)  == f.await \in {"resolved", "rejected"}

\* no promise continuation is runnable: the next macrotask may start
Quiescent == \A s \in SessionIds, k \in Slots : ~Ready(task[s][k])

Return(f, r) ==
    [f EXCEPT !.pc = "returned", !.await = "none", !.val = NoMsg, !.reqSeq = 0,
              !.result = r]

Pending(f, pc) == [f EXCEPT !.pc = pc, !.await = "pending", !.val = NoMsg, !.reqSeq = 0]

SetTask(s, k, f) == task' = [task EXCEPT ![s][k] = f]

\* -------------------------------------------------------- sendDAPRequest
\* debug.timeouts of configuration.ts with no environment variable set, as
\* read by the constructor
dapRequestTimeout    == 5000
dapDisconnectTimeout == 2000

Commands == {"initialize", "launch", "configurationDone", "stackTrace", "scopes",
             "variables", "next", "stepIn", "stepOut", "continue", "setBreakpoints",
             "disconnect"}

\* the timeout sendDAPRequest applies; customTimeout is {} (undefined) or {t}
timeoutMs(command, customTimeout) ==
    IF customTimeout # {} THEN CHOOSE t \in customTimeout : TRUE
    ELSE IF command = "disconnect" THEN dapDisconnectTimeout
    ELSE dapRequestTimeout

RunCommands == {"launch", "next", "stepIn", "stepOut", "continue"}

BufferedResponse(s, requestSeq) ==
    IF outputBuffer[s] = <<>> THEN NoMsg
    ELSE CHOOSE found \in {FindResponse(messages, requestSeq) : messages \in
                                 {parseAllDAPMessages(outputBuffer[s])}} : TRUE

BufferedStopped(s) ==
    IF outputBuffer[s] = <<>> THEN NoMsg
    ELSE CHOOSE found \in {FindStopped(messages) : messages \in
                                 {parseAllDAPMessages(outputBuffer[s])}} : TRUE

ResponseListener(s, k, n) == [s |-> s, slot |-> k, kind |-> "response", seq |-> n]
StoppedListener(s, k)     == [s |-> s, slot |-> k, kind |-> "stopped", seq |-> 0]

\* the frame of the caller once the synchronous part of sendDAPRequest has run
CallFrame(f, s, pc) ==
    LET requestSeq       == seq[s]
        matchingResponse == BufferedResponse(s, requestSeq)
    IN  IF matchingResponse # NoMsg
        THEN [f EXCEPT !.pc = pc, !.await = "resolved", !.val = matchingResponse,
                       !.reqSeq = requestSeq]
        ELSE [f EXCEPT !.pc = pc, !.await = "pending", !.val = NoMsg,
                       !.reqSeq = requestSeq]

CallListeners(s, k) ==
    IF BufferedResponse(s, seq[s]) # NoMsg THEN {}
    ELSE {ResponseListener(s, k, seq[s])}

\* variant: the request is sent with the current seq, which is not advanced
sendDAPRequestSameSeq(s, k, f, command, pc) ==
    /\ seq' = seq
    /\ stdin' = [stdin EXCEPT ![s] = Append(@, DAPRequest(seq[s], command))]
    /\ listeners' = listeners \cup CallListeners(s, k)
    /\ task' = [task EXCEPT ![s][k] = CallFrame(f, s, pc)]

\* sendDAPRequest up to the point where its promise is returned: take the next
\* seq, write the request, look into the buffer, else register listener and timer
sendDAPRequest(s, k, f, command, pc) ==
    /\ seq' = [seq EXCEPT ![s] = @ + 1]
    /\ stdin' = [stdin EXCEPT ![s] = Append(@, DAPRequest(seq[s], command))]
    /\ listeners' = listeners \cup CallListeners(s, k)
    /\ task' = [task EXCEPT ![s][k] = CallFrame(f, s, pc)]

\* variant: the buffer is not consulted, the call always listens for a chunk
waitForStoppedEventListenOnly(s, k, f, pc) ==
    /\ task' = [task EXCEPT ![s][k] = Pending(f, pc)]
    /\ listeners' = listeners \cup {StoppedListener(s, k)}

\* waitForStoppedEvent up to the point where its promise is returned
waitForStoppedEvent(s, k, f, pc) ==
    LET stoppedEvent == BufferedStopped(s) IN
    IF stoppedEvent # NoMsg
    THEN /\ task' = [task EXCEPT ![s][k] =
                        [f EXCEPT !.pc = pc, !.await = "resolved",
                                  !.val = stoppedEvent, !.reqSeq = 0]]
         /\ listeners' = listeners
    ELSE /\ task' = [task EXCEPT ![s][k] = Pending(f, pc)]
         /\ listeners' = listeners \cup {StoppedListener(s, k)}

\* cleanupWorkspace has been called and is running on the file system
CleanupFrame(f, r) ==
    [f EXCEPT !.pc = "cleanup", !.await = "pending", !.val = NoMsg, !.reqSeq = 0,
              !.result = r]

\* -------------------------------------------------------------------- Init
Init ==
    /\ sessions = {}
    /\ initialized = [s \in SessionIds |-> FALSE]
    /\ completed = [s \in SessionIds |-> FALSE]
    /\ seq = [s \in SessionIds |-> 1]
    /\ lastActivity = [s \in SessionIds |-> 0]
    /\ outputBuffer = [s \in SessionIds |-> <<>>]
    /\ lastVariables = [s \in SessionIds |-> 0]
    /\ lastWitnesses = [s \in SessionIds |-> 0]
    /\ breakpoints = [s \in SessionIds |-> <<>>]
    /\ workspace = [s \in SessionIds |-> "absent"]
    /\ cleanups = [s \in SessionIds |-> 0]
    /\ spawned = [s \in SessionIds |-> FALSE]
    /\ exitCode = [s \in SessionIds |-> NULL]
    /\ signalCode = [s \in SessionIds |-> NoSignal]
    /\ signals = [s \in SessionIds |-> <<>>]
    /\ stdin = [s \in SessionIds |-> <<>>]
    /\ answered = [s \in SessionIds |-> {}]
    /\ owed = [s \in SessionIds |-> {}]
    /\ stdout = [s \in SessionIds |-> <<>>]
    /\ listeners = {}
    /\ graceTimer = [s \in SessionIds |-> FALSE]
    /\ cleanupInterval = TRUE
    /\ now = 0
    /\ task = [s \in SessionIds |-> [k \in Slots |-> IdleFrame]]

\* ------------------------------------------------------------ startSession
\* entry up to `await mkdir(workspaceDir)`
StartSession(s) ==
    /\ Quiescent
    /\ cleanupInterval
    /\ task[s][0].op = "idle"
    /\ \A r \in SessionIds : r < s => task[r][0].op # "idle"
    /\ SetTask(s, 0, Pending(NewFrame("start"), "mkdir"))
    /\ UNCHANGED <<sessions, seq, outputBuffer, stdin, listeners>>
    /\ UNCHANGED <<sessionVars, procVars, fsVars, timeVars>>

\* mkdir and the three writeFile calls are done; exec('nargo compile') runs
StartProvisioned(s) ==
    /\ Quiescent
    /\ task[s][0].op = "start" /\ task[s][0].pc = "mkdir"
    /\ workspace' = [workspace EXCEPT ![s] = "present"]
    /\ SetTask(s, 0, Pending(task[s][0], "compile"))
    /\ UNCHANGED <<sessions, seq, outputBuffer, stdin, listeners, cleanups>>
    /\ UNCHANGED <<sessionVars, procVars, timeVars>>

\* variant: the debugger is spawned and the session registered before the
\* outcome of the build is looked at
StartCompiledSpawnFirst(s, ok) ==
    /\ Quiescent
    /\ task[s][0].op = "start" /\ task[s][0].pc = "compile"
    /\ spawned' = [spawned EXCEPT ![s] = TRUE]
    /\ lastActivity' = [lastActivity EXCEPT ![s] = now]
    /\ sessions' = sessions \cup {s}
    /\ IF ok
       THEN sendDAPRequest(s, 0, task[s][0], "initialize", "initialize")
       ELSE /\ SetTask(s, 0, CleanupFrame(task[s][0],
                                Result(FALSE, "Compilation failed", "", 0, 0)))
            /\ UNCHANGED <<seq, stdin, listeners>>
    /\ UNCHANGED <<exitCode, signalCode, signals, answered, owed, stdout>>
    /\ UNCHANGED <<initialized, completed, lastVariables, lastWitnesses, breakpoints>>
    /\ UNCHANGED <<outputBuffer, fsVars, timeVars>>

\* exec settles.  Success: spawn, create and register the session, install the
\* process handlers and send 'initialize'.  Failure: throw into the catch block.
StartCompiled(s, ok) ==
    /\ Quiescent
    /\ task[s][0].op = "start" /\ task[s][0].pc = "compile"
    /\ IF ok
       THEN /\ spawned' = [spawned EXCEPT ![s] = TRUE]
            /\ lastActivity' = [lastActivity EXCEPT ![s] = now]
            /\ sessions' = sessions \cup {s}
            /\ sendDAPRequest(s, 0, task[s][0], "initialize", "initialize")
            /\ UNCHANGED <<exitCode, signalCode, signals, answered, owed, stdout>>
            /\ UNCHANGED <<initialized, completed, lastVariables, lastWitnesses, breakpoints>>
       ELSE /\ SetTask(s, 0, CleanupFrame(task[s][0],
                                Result(FALSE, "Compilation failed", "", 0, 0)))
            /\ UNCHANGED <<sessions, seq, stdin, listeners, sessionVars, procVars>>
    /\ UNCHANGED <<outputBuffer, fsVars, timeVars>>

\* the catch block of startSession: only the workspace is cleaned up
StartCatch(s, err) ==
    /\ SetTask(s, 0, CleanupFrame(task[s][0], Result(FALSE, err, "", 0, 0)))
    /\ UNCHANGED <<seq, stdin, listeners>>

\* variant: the success flag of the initialize response is not looked at
StartInitializedAlwaysLaunch(s) ==
    LET f == task[s][0] IN
    /\ f.op = "start" /\ f.pc = "initialize" /\ Ready(f)
    /\ IF f.await = "rejected" THEN StartCatch(s, "DAP request timeout")
       ELSE sendDAPRequest(s, 0, f, "launch", "launch")
    /\ UNCHANGED <<sessions, outputBuffer, sessionVars, procVars, fsVars, timeVars>>

\* initializeDAP resumes; on success launchDAP sends 'launch'
StartInitialized(s) ==
    LET f == task[s][0] IN
    /\ f.op = "start" /\ f.pc = "initialize" /\ Ready(f)
    /\ IF f.await = "rejected" THEN StartCatch(s, "DAP request timeout")
       ELSE IF ~f.val.success THEN StartCatch(s, "DAP initialization failed")
       ELSE sendDAPRequest(s, 0, f, "launch", "launch")
    /\ UNCHANGED <<sessions, outputBuffer, sessionVars, procVars, fsVars, timeVars>>

\* launchDAP resumes after 'launch'; on success it sends 'configurationDone'
StartLaunched(s) ==
    LET f == task[s][0] IN
    /\ f.op = "start" /\ f.pc = "launch" /\ Ready(f)
    /\ IF f.await = "rejected" THEN StartCatch(s, "DAP request timeout")
       ELSE IF ~f.val.success THEN StartCatch(s, "DAP launch failed")
       ELSE sendDAPRequest(s, 0, f, "configurationDone", "configurationDone")
    /\ UNCHANGED <<sessions, outputBuffer, sessionVars, procVars, fsVars, timeVars>>

\* variant: a configurationDone that fails or times out fails the start
StartConfiguredStrict(s) ==
    LET f == task[s][0] IN
    /\ f.op = "start" /\ f.pc = "configurationDone" /\ Ready(f)
    /\ IF f.await = "rejected" \/ ~f.val.success
       THEN /\ StartCatch(s, "configurationDone failed")
            /\ UNCHANGED <<sessions, seq, stdin, outputBuffer>>
       ELSE /\ waitForStoppedEvent(s, 0, f, "stopped")
            /\ UNCHANGED <<sessions, seq, stdin, outputBuffer>>
    /\ UNCHANGED <<sessionVars, procVars, fsVars, timeVars>>

\* configurationDone settled either way; startSession waits for 'stopped'
StartConfigured(s) ==
    LET f == task[s][0] IN
    /\ f.op = "start" /\ f.pc = "configurationDone" /\ Ready(f)
    /\ waitForStoppedEvent(s, 0, f, "stopped")
    /\ UNCHANGED <<sessions, seq, stdin, outputBuffer>>
    /\ UNCHANGED <<sessionVars, procVars, fsVars, timeVars>>

\* variant: a wait for the first stopped event that timed out is repeated
StartStoppedRetry(s) ==
    LET f == task[s][0] IN
    /\ f.op = "start" /\ f.pc = "stopped" /\ Ready(f)
    /\ IF f.await = "rejected"
       THEN /\ waitForStoppedEvent(s, 0, f, "stopped")
            /\ UNCHANGED <<seq, stdin>>
       ELSE sendDAPRequest(s, 0, [f EXCEPT !.ev = f.val], "stackTrace", "state")
    /\ UNCHANGED <<sessions, outputBuffer, sessionVars, procVars, fsVars, timeVars>>

\* the first stopped event settled; getCurrentDebugState sends 'stackTrace'
StartStopped(s) ==
    LET f == task[s][0] IN
    /\ f.op = "start" /\ f.pc = "stopped" /\ Ready(f)
    /\ IF f.await = "rejected" THEN StartCatch(s, "Timeout waiting for stopped event")
       ELSE sendDAPRequest(s, 0, [f EXCEPT !.ev = f.val], "stackTrace", "state")
    /\ UNCHANGED <<sessions, outputBuffer, sessionVars, procVars, fsVars, timeVars>>

\* getCurrentDebugState resumes: initialized := true, return success
StartStateFetched(s) ==
    LET f == task[s][0] IN
    /\ f.op = "start" /\ f.pc = "state" /\ Ready(f)
    /\ IF f.await = "rejected"
       THEN /\ StartCatch(s, "DAP request timeout")
            /\ UNCHANGED initialized
       ELSE /\ initialized' = [initialized EXCEPT ![s] = TRUE]
            /\ SetTask(s, 0, Return(f, Result(TRUE, "", "stopped", f.ev.cause, 0)))
            /\ UNCHANGED <<seq, stdin, listeners>>
    /\ UNCHANGED <<sessions, outputBuffer, completed, lastActivity, lastVariables,
                   lastWitnesses, breakpoints, procVars, fsVars, timeVars>>

\* cleanupWorkspace / removeDirectoryRecursive have run on the directory of s
cleanupWorkspace(s) ==
    /\ workspace' = [workspace EXCEPT ![s] = "absent"]
    /\ cleanups' = [cleanups EXCEPT ![s] = @ + 1]

\* cleanupWorkspace of the catch block is done; startSession returns failure
StartCleanedUp(s) ==
    LET f == task[s][0] IN
    /\ Quiescent
    /\ f.op = "start" /\ f.pc = "cleanup"
    /\ cleanupWorkspace(s)
    /\ SetTask(s, 0, Return(f, f.result))
    /\ UNCHANGED <<sessions, seq, stdin, outputBuffer, listeners>>
    /\ UNCHANGED <<sessionVars, procVars, timeVars>>

\* -------------------------------------------------------- the subprocess
Bodies == {1}                    \* result bodies the debugger returns (0: empty)

\* the child has exited: with an exit code, or killed by a signal, in which
\* case exitCode stays null and signalCode names the signal
Exited(s) == exitCode[s] # NULL \/ signalCode[s] # NoSignal

Alive(s) == spawned[s] /\ ~Exited(s) /\ "SIGKILL" \notin {signals[s][i] : i \in 1..Len(signals[s])}

\* the debugger answers one of the requests it has read, in any order
ProcRespond(s, i, ok, b) ==
    LET req == stdin[s][i] IN
    /\ Quiescent
    /\ Alive(s)
    /\ req.seq \notin answered[s]
    /\ answered' = [answered EXCEPT ![s] = @ \cup {req.seq}]
    /\ stdout' = [stdout EXCEPT ![s] = @ \o formatDAPMessage(DAPResponse(req, ok, b))]
    /\ owed' = [owed EXCEPT ![s] =
                   IF ok /\ req.command \in RunCommands THEN @ \cup {req.seq} ELSE @]
    /\ UNCHANGED <<sessions, seq, stdin, outputBuffer, listeners, task>>
    /\ UNCHANGED <<sessionVars, spawned, exitCode, signalCode, signals, fsVars, timeVars>>

\* the debuggee stops after a launch or a step: a 'stopped' event is written
ProcStopped(s, c) ==
    /\ Quiescent
    /\ Alive(s)
    /\ c \in owed[s]
    /\ owed' = [owed EXCEPT ![s] = @ \ {c}]
    /\ stdout' = [stdout EXCEPT ![s] = @ \o formatDAPMessage(StoppedEvent(c))]
    /\ UNCHANGED <<sessions, seq, stdin, outputBuffer, listeners, task, answered>>
    /\ UNCHANGED <<sessionVars, spawned, exitCode, signalCode, signals, fsVars, timeVars>>

\* the debugger announces that it accepts configuration: one 'initialized'
\* event, some time after it has answered initialize with success
ProcInitialized(s) ==
    LET written == parseAllDAPMessages(outputBuffer[s] \o stdout[s])
        first   == FindResponse(written, 1)
    IN
    /\ Quiescent
    /\ Alive(s)
    /\ first.command = "initialize" /\ first.success
    /\ \A i \in 1..Len(written) : written[i] # InitializedEvent
    /\ stdout' = [stdout EXCEPT ![s] = @ \o formatDAPMessage(InitializedEvent)]
    /\ UNCHANGED <<sessions, seq, stdin, outputBuffer, listeners, task, answered, owed>>
    /\ UNCHANGED <<sessionVars, spawned, exitCode, signalCode, signals, fsVars, timeVars>>

\* frames of calls that were in flight when the process exited
MarkExit(s) ==
    [task EXCEPT ![s] = [k \in Slots |->
        IF Active(task[s][k]) THEN [task[s][k] EXCEPT !.preExit = TRUE]
        ELSE task[s][k]]]

\* dapProcess 'exit' handler (setupProcessHandlers): the process has exited,
\* by itself (exit code) or killed by the last signal sent to it (no exit code,
\* which SIGKILL always gives); mark completed and arm the grace timer
ProcExit(s, bySignal) ==
    /\ Quiescent
    /\ spawned[s] /\ ~Exited(s)
    /\ bySignal => signals[s] # <<>>
    /\ "SIGKILL" \in {signals[s][i] : i \in 1..Len(signals[s])} => bySignal
    /\ exitCode' = [exitCode EXCEPT ![s] = IF bySignal THEN NULL ELSE 0]
    /\ signalCode' = [signalCode EXCEPT ![s] =
                         IF bySignal THEN signals[s][Len(signals[s])] ELSE NoSignal]
    /\ completed' = [completed EXCEPT ![s] = TRUE]
    /\ graceTimer' = [graceTimer EXCEPT ![s] = TRUE]
    /\ owed' = [owed EXCEPT ![s] = {}]
    /\ task' = MarkExit(s)
    /\ UNCHANGED <<sessions, seq, stdin, outputBuffer, listeners, answered, stdout>>
    /\ UNCHANGED <<initialized, lastActivity, lastVariables, lastWitnesses, breakpoints>>
    /\ UNCHANGED <<spawned, signals, fsVars, cleanupInterval, now>>

\* The grace timer runs 30 s; every call other than terminateSession that was
\* in flight at the exit returns within 15 s of it (timeouts of 5 s and 10 s).
GraceTimerDue(s) ==
    /\ graceTimer[s]
    /\ \A k \in Slots :
         Active(task[s][k]) /\ task[s][k].preExit => task[s][k].op = "terminate"

\* callback of the setTimeout in the 'exit' handler
GraceTimerFire(s) ==
    /\ Quiescent
    /\ GraceTimerDue(s)
    /\ graceTimer' = [graceTimer EXCEPT ![s] = FALSE]
    /\ sessions' = sessions \ {s}
    /\ UNCHANGED <<seq, stdin, outputBuffer, listeners, task>>
    /\ UNCHANGED <<sessionVars, procVars, fsVars, cleanupInterval, now>>

\* ---------------------------------------------------------- stdout 'data'
\* variant: the listener takes the first response of the chunk, whatever its
\* request_seq
ListenerMatchAnyResponse(l, chunk) ==
    IF l.kind = "response"
    THEN LET messages == parseAllDAPMessages(chunk)
             hit == {i \in 1..Len(messages) : messages[i].type = "response"}
         IN  IF hit = {} THEN NoMsg
             ELSE messages[CHOOSE i \in hit : \A j \in hit : i <= j]
    ELSE LET message == parseDAPMessage(chunk) IN
         IF message.type = "event" /\ message.event = "stopped" THEN message
         ELSE NoMsg

\* the message a listener takes from a chunk, NoMsg if it stays registered
ListenerMatch(l, chunk) ==
    IF l.kind = "response"
    THEN FindResponse(parseAllDAPMessages(chunk), l.seq)
    ELSE LET message == parseDAPMessage(chunk) IN
         IF message.type = "event" /\ message.event = "stopped" THEN message
         ELSE NoMsg

\* variant: one receive buffer shared by all sessions
handleDAPOutputShared(s, chunk) ==
    outputBuffer' = [r \in SessionIds |-> outputBuffer[r] \o chunk]

\* handleDAPOutput
handleDAPOutput(s, chunk) ==
    outputBuffer' = [outputBuffer EXCEPT ![s] = @ \o chunk]

\* one 'data' event on the stdout of s carrying the first n unread bytes: every
\* registered listener runs on the chunk
StdoutData(s, n) ==
    LET chunk == SubSeq(stdout[s], 1, n)
        fired == {l \in listeners : l.s = s /\ ListenerMatch(l, chunk) # NoMsg}
    IN
    /\ Quiescent
    /\ n \in 1..Len(stdout[s])
    /\ stdout' = [stdout EXCEPT ![s] = SubSeq(@, n + 1, Len(@))]
    /\ handleDAPOutput(s, chunk)
    /\ listeners' = listeners \ fired
    /\ task' = [task EXCEPT ![s] = [k \in Slots |->
                  IF \E l \in fired : l.slot = k
                  THEN LET l == CHOOSE l \in fired : l.slot = k IN
                       [task[s][k] EXCEPT !.await = "resolved",
                                          !.val = ListenerMatch(l, chunk)]
                  ELSE task[s][k]]]
    /\ UNCHANGED <<sessions, seq, stdin, sessionVars, fsVars, timeVars>>
    /\ UNCHANGED <<spawned, exitCode, signalCode, signals, answered, owed>>

CallPcs == {"initialize", "launch", "configurationDone", "state", "step", "stack",
            "disconnect", "breakpoints", "vars.stackTrace", "vars.scopes", "vars.variables",
            "wit.stackTrace", "wit.scopes", "wit.variables"}

\* variant: the timer rejects and leaves the listener on stdout
CallTimeoutKeepsListener(s, k) ==
    LET f == task[s][k] IN
    /\ Quiescent
    /\ f.await = "pending" /\ f.pc \in CallPcs
    /\ SetTask(s, k, [f EXCEPT !.await = "rejected"])
    /\ UNCHANGED <<sessions, seq, stdin, outputBuffer, listeners>>
    /\ UNCHANGED <<sessionVars, procVars, fsVars, timeVars>>

\* timer of sendDAPRequest: remove the listener, reject
CallTimeout(s, k) ==
    LET f == task[s][k] IN
    /\ Quiescent
    /\ f.await = "pending" /\ f.pc \in CallPcs
    /\ listeners' = listeners \ {ResponseListener(s, k, f.reqSeq)}
    /\ SetTask(s, k, [f EXCEPT !.await = "rejected"])
    /\ UNCHANGED <<sessions, seq, stdin, outputBuffer>>
    /\ UNCHANGED <<sessionVars, procVars, fsVars, timeVars>>

\* timer of waitForStoppedEvent: reject; the listener stays on stdout
WaitTimeout(s, k) ==
    LET f == task[s][k] IN
    /\ Quiescent
    /\ f.await = "pending" /\ f.pc = "stopped"
    /\ listeners' = (listeners \ {StoppedListener(s, k)})
                       \cup {StoppedListener(s, Orphan)}
    /\ SetTask(s, k, [f EXCEPT !.await = "rejected"])
    /\ UNCHANGED <<sessions, seq, stdin, outputBuffer>>
    /\ UNCHANGED <<sessionVars, procVars, fsVars, timeVars>>

\* -------------------------------------------------------- terminateSession
\* the client holds the session id once startSession has returned it
ClientKnows(s) == task[s][0].pc = "returned" /\ task[s][0].result.success

\* the controller hands any session id it is given to the service; the ids that
\* exist are those startSession has generated (once startSession has returned,
\* a client holds the id of a start that succeeded, see the initial states)
Addressed(s) == task[s][0].op = "start"

NeedsDisconnect(s) == initialized[s] /\ exitCode[s] = NULL

\* Steps 2-5 of terminateSession, up to the next await: SIGTERM and the 2 s
\* wait if the process has not exited, else straight to cleanupWorkspace
KillFrame(f, s) ==
    IF exitCode[s] = NULL
    THEN Pending([f EXCEPT !.result.reason = "sigterm"], "sigterm")
    ELSE CleanupFrame(f, [f.result EXCEPT !.reason = "exited"])

KillSignals(s) ==
    IF exitCode[s] = NULL THEN Append(signals[s], "SIGTERM") ELSE signals[s]

\* the frame of terminateSession(s) at its first await
TerminateFrame(s) ==
    LET f == [NewFrame("terminate") EXCEPT !.result = Result(TRUE, "", "", 0, 0)] IN
    IF NeedsDisconnect(s) THEN CallFrame(f, s, "disconnect") ELSE KillFrame(f, s)

\* terminateSession is entered for every session of T, slotOf[s] being the
\* frame of the call for s; each call runs up to its first await
BeginTerminate(T, slotOf) ==
    /\ seq' = [s \in SessionIds |->
                 IF s \in T /\ NeedsDisconnect(s) THEN seq[s] + 1 ELSE seq[s]]
    /\ stdin' = [s \in SessionIds |->
                 IF s \in T /\ NeedsDisconnect(s)
                 THEN Append(stdin[s], DAPRequest(seq[s], "disconnect"))
                 ELSE stdin[s]]
    /\ listeners' = listeners \cup
                 UNION {CallListeners(s, slotOf[s]) : s \in {x \in T : NeedsDisconnect(x)}}
    /\ signals' = [s \in SessionIds |->
                 IF s \in T /\ ~NeedsDisconnect(s) THEN KillSignals(s) ELSE signals[s]]
    /\ task' = [s \in SessionIds |->
                 IF s \in T THEN [task[s] EXCEPT ![slotOf[s]] = TerminateFrame(s)]
                 ELSE task[s]]

\* frames 1..n are available to calls; a new call takes the first free one
FreeSlots(s, n) == {k \in 1..n : Free(task[s][k])}

FirstFreeSlot(s, n) == CHOOSE k \in FreeSlots(s, n) : \A j \in FreeSlots(s, n) : k <= j

NewCall(s, k) == k \in CallSlots /\ Free(task[s][k]) /\ \A j \in 1..(k-1) : ~Free(task[s][j])

\* terminateSession called by the controller
TerminateSession(s, k) ==
    /\ Quiescent
    /\ cleanupInterval
    /\ ClientKnows(s)
    /\ NewCall(s, k)
    /\ IF s \notin sessions
       THEN /\ SetTask(s, k, Return(NewFrame("terminate"),
                                    Result(FALSE, "Session not found", "", 0, 0)))
            /\ UNCHANGED <<seq, stdin, listeners, signals>>
       ELSE BeginTerminate({s}, [x \in {s} |-> k])
    /\ UNCHANGED <<sessions, outputBuffer, sessionVars, fsVars, timeVars>>
    /\ UNCHANGED <<spawned, exitCode, signalCode, answered, owed, stdout>>

\* the disconnect call settled (response or timeout): go on to the signals
TerminateDisconnected(s, k) ==
    LET f == task[s][k]
        g == IF f.await = "rejected"
             THEN [f EXCEPT !.result.error = "disconnect failed"] ELSE f
    IN
    /\ f.op = "terminate" /\ f.pc = "disconnect" /\ Ready(f)
    /\ signals' = [signals EXCEPT ![s] = KillSignals(s)]
    /\ SetTask(s, k, KillFrame(g, s))
    /\ UNCHANGED <<sessions, seq, stdin, outputBuffer, listeners>>
    /\ UNCHANGED <<sessionVars, fsVars, timeVars>>
    /\ UNCHANGED <<spawned, exitCode, signalCode, answered, owed, stdout>>

\* variant: no escalation to SIGKILL after the 2 s wait
TerminateSigtermWaitedNoKill(s, k) ==
    LET f == task[s][k] IN
    /\ Quiescent
    /\ f.op = "terminate" /\ f.pc = "sigterm"
    /\ signals' = signals
    /\ SetTask(s, k, CleanupFrame(f, f.result))
    /\ UNCHANGED <<sessions, seq, stdin, outputBuffer, listeners>>
    /\ UNCHANGED <<sessionVars, fsVars, timeVars>>
    /\ UNCHANGED <<spawned, exitCode, signalCode, answered, owed, stdout>>

\* the 2 s wait after SIGTERM is over: SIGKILL and 500 ms if still alive
TerminateSigtermWaited(s, k) ==
    LET f == task[s][k] IN
    /\ Quiescent
    /\ f.op = "terminate" /\ f.pc = "sigterm"
    /\ IF exitCode[s] = NULL
       THEN /\ signals' = [signals EXCEPT ![s] = Append(@, "SIGKILL")]
            /\ SetTask(s, k, Pending([f EXCEPT !.result.reason = "sigkill"], "sigkill"))
       ELSE /\ signals' = signals
            /\ SetTask(s, k, CleanupFrame(f, f.result))
    /\ UNCHANGED <<sessions, seq, stdin, outputBuffer, listeners>>
    /\ UNCHANGED <<sessionVars, fsVars, timeVars>>
    /\ UNCHANGED <<spawned, exitCode, signalCode, answered, owed, stdout>>

\* variant: after the escalation to SIGKILL terminateSession returns at once,
\* without cleanup and without deleting the entry
TerminateSigkillNoCleanup(s, k) ==
    LET f == task[s][k] IN
    /\ Quiescent
    /\ f.op = "terminate" /\ f.pc = "sigkill"
    /\ SetTask(s, k, Return(f, f.result))
    /\ UNCHANGED <<sessions, seq, stdin, outputBuffer, listeners>>
    /\ UNCHANGED <<sessionVars, procVars, fsVars, timeVars>>

\* the 500 ms wait after SIGKILL is over
TerminateSigkillWaited(s, k) ==
    LET f == task[s][k] IN
    /\ Quiescent
    /\ f.op = "terminate" /\ f.pc = "sigkill"
    /\ SetTask(s, k, CleanupFrame(f, f.result))
    /\ UNCHANGED <<sessions, seq, stdin, outputBuffer, listeners>>
    /\ UNCHANGED <<sessionVars, procVars, fsVars, timeVars>>

\* Step 6: cleanupWorkspace is done; delete the entry and return true
TerminateCleanedUp(s, k) ==
    LET f == task[s][k] IN
    /\ Quiescent
    /\ f.op = "terminate" /\ f.pc = "cleanup"
    /\ cleanupWorkspace(s)
    /\ sessions' = sessions \ {s}
    /\ SetTask(s, k, Return(f, f.result))
    /\ UNCHANGED <<seq, stdin, outputBuffer, listeners>>
    /\ UNCHANGED <<sessionVars, procVars, timeVars>>

\* ------------------------------------------------- reaper, shutdown, clock
\* variant: a session is stale as soon as its idle time reaches the threshold
StaleAtThreshold == {s \in sessions : now - lastActivity[s] >= SESSION_TIMEOUT_MS}

Stale == {s \in sessions : now - lastActivity[s] > SESSION_TIMEOUT_MS}

\* callback of the setInterval: terminateSession, not awaited, for each stale
\* session
cleanupStaleSessions(n) ==
    /\ Quiescent
    /\ cleanupInterval
    /\ Stale # {}
    /\ \A s \in Stale : FreeSlots(s, n) # {}
    /\ BeginTerminate(Stale, [s \in Stale |-> FirstFreeSlot(s, n)])
    /\ UNCHANGED <<sessions, outputBuffer, sessionVars, fsVars, timeVars>>
    /\ UNCHANGED <<spawned, exitCode, signalCode, answered, owed, stdout>>

\* variant: the interval is cleared and no session is terminated
onModuleDestroyClearOnly(n) ==
    /\ Quiescent
    /\ cleanupInterval
    /\ cleanupInterval' = FALSE
    /\ UNCHANGED <<sessions, seq, stdin, outputBuffer, listeners, task>>
    /\ UNCHANGED <<sessionVars, procVars, fsVars, graceTimer, now>>

\* onModuleDestroy: clearInterval, then terminateSession, not awaited, for
\* every session of the map
onModuleDestroy(n) ==
    /\ Quiescent
    /\ cleanupInterval
    /\ \A s \in sessions : FreeSlots(s, n) # {}
    /\ cleanupInterval' = FALSE
    /\ BeginTerminate(sessions, [s \in sessions |-> FirstFreeSlot(s, n)])
    /\ UNCHANGED <<sessions, outputBuffer, sessionVars, fsVars, graceTimer, now>>
    /\ UNCHANGED <<spawned, exitCode, signalCode, answered, owed, stdout>>

TimerPcs == CallPcs \cup {"stopped", "sigterm", "sigkill"}

\* Date advances by one model tick (10 min); every timer of the service is
\* shorter than a tick and has fired or been cleared by then.  The clock is
\* read only against registered sessions and advances only while there is one.
Tick ==
    /\ Quiescent
    /\ now < MaxNow * TickMs
    /\ sessions # {}
    /\ \A s \in SessionIds : ~graceTimer[s]
    /\ \A s \in SessionIds, k \in Slots :
          ~(task[s][k].await = "pending" /\ task[s][k].pc \in TimerPcs)
    /\ now' = now + TickMs
    /\ UNCHANGED <<sessions, seq, stdin, outputBuffer, listeners, task>>
    /\ UNCHANGED <<sessionVars, procVars, fsVars, graceTimer, cleanupInterval>>

\* ------------------------------------------- getVariables, getWitnessMap
Touch(s) == lastActivity' = [lastActivity EXCEPT ![s] = now]

\* variant: the completed flag is not looked at, the subprocess is queried
ImmediateNoCache(s, cached) ==
    IF s \notin sessions \/ ~initialized[s]
    THEN [done |-> TRUE, success |-> FALSE, value |-> 0]
    ELSE [done |-> FALSE, success |-> FALSE, value |-> 0]

\* what getVariables / getWitnessMap return before any await, if they do
Immediate(s, cached) ==
    IF s \notin sessions \/ ~initialized[s]
    THEN [done |-> TRUE, success |-> FALSE, value |-> 0]
    ELSE IF completed[s]
    THEN [done |-> TRUE, success |-> TRUE, value |-> cached[s]]
    ELSE [done |-> FALSE, success |-> FALSE, value |-> 0]

\* variant: a step whose witnesses could not be fetched returns a failure
WitReturnStrict(s, k, f, ok, value) ==
    /\ lastWitnesses' = IF f.op = "step" /\ ok
                        THEN [lastWitnesses EXCEPT ![s] = value] ELSE lastWitnesses
    /\ SetTask(s, k, IF f.op = "step" /\ ok THEN Return(f, f.result)
                     ELSE Return(f, [Result(ok, IF ok THEN "" ELSE "no witnesses",
                                            "", 0, 0) EXCEPT !.value = value]))
    /\ UNCHANGED <<seq, stdin, listeners, lastActivity>>

\* getWitnessMap returns (ok, value) to its caller: executeStep caches the
\* witnesses and returns its state; the controller gets the result
WitReturn(s, k, f, ok, value) ==
    /\ lastWitnesses' = IF f.op = "step" /\ ok
                        THEN [lastWitnesses EXCEPT ![s] = value] ELSE lastWitnesses
    /\ SetTask(s, k, IF f.op = "step" THEN Return(f, f.result)
                     ELSE Return(f, [Result(ok, IF ok THEN "" ELSE "no witnesses",
                                            "", 0, 0) EXCEPT !.value = value]))
    /\ UNCHANGED <<seq, stdin, listeners, lastActivity>>

\* executeStep, from the call of getWitnessMap on
StepCacheWitnesses(s, k, f) ==
    LET w == Immediate(s, lastWitnesses) IN
    IF w.done THEN WitReturn(s, k, f, w.success, w.value)
    ELSE /\ Touch(s)
         /\ sendDAPRequest(s, k, f, "stackTrace", "wit.stackTrace")
         /\ UNCHANGED lastWitnesses

\* getVariables returns (ok, value) to its caller
VarsReturn(s, k, f, ok, value) ==
    IF f.op = "step"
    THEN /\ lastVariables' = IF ok THEN [lastVariables EXCEPT ![s] = value]
                             ELSE lastVariables
         /\ StepCacheWitnesses(s, k, f)
    ELSE /\ SetTask(s, k, Return(f, [Result(ok, IF ok THEN "" ELSE "no variables",
                                            "", 0, 0) EXCEPT !.value = value]))
         /\ UNCHANGED <<seq, stdin, listeners, lastActivity, lastVariables, lastWitnesses>>

\* executeStep, from the call of getVariables on
StepCacheVariables(s, k, f) ==
    LET v == Immediate(s, lastVariables) IN
    IF v.done THEN VarsReturn(s, k, f, v.success, v.value)
    ELSE /\ Touch(s)
         /\ sendDAPRequest(s, k, f, "stackTrace", "vars.stackTrace")
         /\ UNCHANGED <<lastVariables, lastWitnesses>>

\* getVariables resumes after 'stackTrace'
VarsStackTrace(s, k) ==
    LET f == task[s][k] IN
    /\ f.pc = "vars.stackTrace" /\ Ready(f)
    /\ IF f.await = "rejected" \/ ~f.val.success \/ f.val.body = 0
       THEN VarsReturn(s, k, f, FALSE, 0)
       ELSE /\ sendDAPRequest(s, k, f, "scopes", "vars.scopes")
            /\ UNCHANGED <<lastActivity, lastVariables, lastWitnesses>>
    /\ UNCHANGED <<sessions, outputBuffer, initialized, completed, breakpoints>>
    /\ UNCHANGED <<procVars, fsVars, timeVars>>

\* getVariables resumes after 'scopes'
VarsScopes(s, k) ==
    LET f == task[s][k] IN
    /\ f.pc = "vars.scopes" /\ Ready(f)
    /\ IF f.await = "rejected" \/ ~f.val.success \/ f.val.body = 0
       THEN VarsReturn(s, k, f, FALSE, 0)
       ELSE /\ sendDAPRequest(s, k, f, "variables", "vars.variables")
            /\ UNCHANGED <<lastActivity, lastVariables, lastWitnesses>>
    /\ UNCHANGED <<sessions, outputBuffer, initialized, completed, breakpoints>>
    /\ UNCHANGED <<procVars, fsVars, timeVars>>

\* getVariables resumes after 'variables' and returns
VarsVariables(s, k) ==
    LET f == task[s][k] IN
    /\ f.pc = "vars.variables" /\ Ready(f)
    /\ IF f.await = "rejected" \/ ~f.val.success
       THEN VarsReturn(s, k, f, FALSE, 0)
       ELSE VarsReturn(s, k, f, TRUE, f.val.body)
    /\ UNCHANGED <<sessions, outputBuffer, initialized, completed, breakpoints>>
    /\ UNCHANGED <<procVars, fsVars, timeVars>>

WitnessMapScope == 1             \* scopes body that holds a 'Witness Map' scope

\* getWitnessMap resumes after 'stackTrace'
WitStackTrace(s, k) ==
    LET f == task[s][k] IN
    /\ f.pc = "wit.stackTrace" /\ Ready(f)
    /\ IF f.await = "rejected" \/ ~f.val.success \/ f.val.body = 0
       THEN /\ WitReturn(s, k, f, FALSE, 0)
       ELSE /\ sendDAPRequest(s, k, f, "scopes", "wit.scopes")
            /\ UNCHANGED <<lastActivity, lastWitnesses>>
    /\ UNCHANGED <<sessions, outputBuffer, initialized, completed, lastVariables, breakpoints>>
    /\ UNCHANGED <<procVars, fsVars, timeVars>>

\* getWitnessMap resumes after 'scopes' and looks for the 'Witness Map' scope
WitScopes(s, k) ==
    LET f == task[s][k] IN
    /\ f.pc = "wit.scopes" /\ Ready(f)
    /\ IF f.await = "rejected" \/ ~f.val.success \/ f.val.body = 0
          \/ f.val.body # WitnessMapScope
       THEN /\ WitReturn(s, k, f, FALSE, 0)
       ELSE /\ sendDAPRequest(s, k, f, "variables", "wit.variables")
            /\ UNCHANGED <<lastActivity, lastWitnesses>>
    /\ UNCHANGED <<sessions, outputBuffer, initialized, completed, lastVariables, breakpoints>>
    /\ UNCHANGED <<procVars, fsVars, timeVars>>

\* getWitnessMap resumes after 'variables' and returns
WitVariables(s, k) ==
    LET f == task[s][k] IN
    /\ f.pc = "wit.variables" /\ Ready(f)
    /\ IF f.await = "rejected" \/ ~f.val.success
       THEN WitReturn(s, k, f, FALSE, 0)
       ELSE WitReturn(s, k, f, TRUE, f.val.body)
    /\ UNCHANGED <<sessions, outputBuffer, initialized, completed, lastVariables, breakpoints>>
    /\ UNCHANGED <<procVars, fsVars, timeVars>>

\* the result of an early return of getVariables / getWitnessMap; a snapshot
\* served from the session is tagged "cached"
ImmediateResult(v) ==
    [Result(v.success,
            IF v.success THEN "" ELSE "Session not found or not initialized",
            IF v.success THEN "cached" ELSE "", 0, 0) EXCEPT !.value = v.value]

\* getVariables called by the controller, up to its return or first await
GetVariables(s, k) ==
    LET v == Immediate(s, lastVariables) IN
    /\ Quiescent
    /\ cleanupInterval
    /\ Addressed(s)
    /\ v.done \/ seq[s] <= MaxSeq
    /\ NewCall(s, k)
    /\ IF v.done
       THEN /\ SetTask(s, k, Return(NewFrame("vars"), ImmediateResult(v)))
            /\ UNCHANGED <<seq, stdin, listeners, lastActivity>>
       ELSE /\ Touch(s)
            /\ sendDAPRequest(s, k, NewFrame("vars"), "stackTrace", "vars.stackTrace")
    /\ UNCHANGED <<sessions, outputBuffer, initialized, completed, lastVariables,
                   lastWitnesses, breakpoints, procVars, fsVars, timeVars>>

\* getWitnessMap called by the controller, up to its return or first await
GetWitnessMap(s, k) ==
    LET w == Immediate(s, lastWitnesses) IN
    /\ Quiescent
    /\ cleanupInterval
    /\ Addressed(s)
    /\ w.done \/ seq[s] <= MaxSeq
    /\ NewCall(s, k)
    /\ IF w.done
       THEN /\ SetTask(s, k, Return(NewFrame("wit"), ImmediateResult(w)))
            /\ UNCHANGED <<seq, stdin, listeners, lastActivity>>
       ELSE /\ Touch(s)
            /\ sendDAPRequest(s, k, NewFrame("wit"), "stackTrace", "wit.stackTrace")
    /\ UNCHANGED <<sessions, outputBuffer, initialized, completed, lastVariables,
                   lastWitnesses, breakpoints, procVars, fsVars, timeVars>>

\* variant: on a running session the debugger is asked with 'evaluate'
GetOpcodesEvaluate(s, k) ==
    /\ Quiescent
    /\ cleanupInterval
    /\ Addressed(s)
    /\ NewCall(s, k)
    /\ IF s \notin sessions \/ ~initialized[s]
       THEN /\ SetTask(s, k, Return(NewFrame("opcodes"),
                       Result(FALSE, "Session not found or not initialized", "", 0, 0)))
            /\ UNCHANGED <<seq, stdin, listeners, lastActivity>>
       ELSE IF completed[s]
       THEN /\ SetTask(s, k, Return(NewFrame("opcodes"), Result(TRUE, "", "", 0, 0)))
            /\ UNCHANGED <<seq, stdin, listeners, lastActivity>>
       ELSE /\ Touch(s)
            /\ sendDAPRequest(s, k, NewFrame("opcodes"), "evaluate", "opcodes")
    /\ UNCHANGED <<sessions, outputBuffer, initialized, completed,
                   lastVariables, lastWitnesses, breakpoints, procVars, fsVars, timeVars>>

\* getOpcodes: the debugger has no such query; an empty list is returned at
\* once (value 0 is the empty list)
GetOpcodes(s, k) ==
    /\ Quiescent
    /\ cleanupInterval
    /\ Addressed(s)
    /\ NewCall(s, k)
    /\ IF s \notin sessions \/ ~initialized[s]
       THEN /\ SetTask(s, k, Return(NewFrame("opcodes"),
                       Result(FALSE, "Session not found or not initialized", "", 0, 0)))
            /\ UNCHANGED lastActivity
       ELSE IF completed[s]
       THEN /\ SetTask(s, k, Return(NewFrame("opcodes"), Result(TRUE, "", "", 0, 0)))
            /\ UNCHANGED lastActivity
       ELSE /\ Touch(s)
            /\ SetTask(s, k, Return(NewFrame("opcodes"), Result(TRUE, "", "", 0, 0)))
    /\ UNCHANGED <<sessions, seq, stdin, listeners, outputBuffer, initialized, completed,
                   lastVariables, lastWitnesses, breakpoints, procVars, fsVars, timeVars>>

\* ------------------------------------------------------------- executeStep
UserCommands == {"next"}

\* the command names of StepCommandDto, a name outside of them, and a name
\* that every object literal inherits from Object.prototype
StepCommands == {"next", "into", "out", "over", "continue", "step", "pause", "constructor"}

\* commandMap is an object literal: commandMap[command] also finds the members
\* it inherits from Object.prototype, which are functions or objects (truthy)
ObjectPrototypeKeys ==
    {"constructor", "toString", "toLocaleString", "valueOf", "hasOwnProperty",
     "isPrototypeOf", "propertyIsEnumerable", "__proto__"}

Inherited == "[Object.prototype member]"

\* commandMap[command] || command
mapStepCommandToDAP(command) ==
    CASE command = "next"     -> "next"
      [] command = "into"     -> "stepIn"
      [] command = "out"      -> "stepOut"
      [] command = "over"     -> "next"
      [] command = "continue" -> "continue"
      [] command = "step"     -> "next"
      [] command \in ObjectPrototypeKeys -> Inherited
      [] OTHER                -> command

StepCompleted(f) == Return(f, Result(TRUE, "", "completed", 0, f.stepSeq))
StepFailed(f, err) == Return(f, Result(FALSE, err, "", 0, f.stepSeq))

\* the outer catch of executeStep
StepOuterCatch(s, f, err) ==
    IF s \in sessions /\ exitCode[s] # NULL THEN StepCompleted(f)
    ELSE StepFailed(f, err)

\* the catch around the wait for 'stopped' and the state fetch; what it
\* rethrows lands in the outer catch
StepInnerCatch(s, f, err) ==
    IF exitCode[s] # NULL THEN StepCompleted(f)
    ELSE StepOuterCatch(s, f, err)

\* variant: the registry is not consulted, only the initialized flag
ExecuteStepNoLookup(s, k, command) ==
    /\ Quiescent
    /\ cleanupInterval
    /\ Addressed(s)
    /\ seq[s] <= MaxSeq
    /\ NewCall(s, k)
    /\ IF ~initialized[s]
       THEN /\ SetTask(s, k, StepFailed(NewFrame("step"), "Session not initialized"))
            /\ UNCHANGED <<seq, stdin, listeners, lastActivity>>
       ELSE /\ Touch(s)
            /\ sendDAPRequest(s, k, [NewFrame("step") EXCEPT !.stepSeq = seq[s]],
                              mapStepCommandToDAP(command), "step")
    /\ UNCHANGED <<sessions, outputBuffer, initialized, completed, lastVariables,
                   lastWitnesses, breakpoints, procVars, fsVars, timeVars>>

\* executeStep called by the controller, up to the await of the step request
ExecuteStep(s, k, command) ==
    /\ Quiescent
    /\ cleanupInterval
    /\ Addressed(s)
    /\ seq[s] <= MaxSeq
    /\ NewCall(s, k)
    /\ IF s \notin sessions
       THEN /\ SetTask(s, k, StepFailed(NewFrame("step"), "Session not found"))
            /\ UNCHANGED <<seq, stdin, listeners, lastActivity>>
       ELSE IF ~initialized[s]
       THEN /\ SetTask(s, k, StepFailed(NewFrame("step"), "Session not initialized"))
            /\ UNCHANGED <<seq, stdin, listeners, lastActivity>>
       ELSE /\ Touch(s)
            /\ sendDAPRequest(s, k, [NewFrame("step") EXCEPT !.stepSeq = seq[s]],
                              mapStepCommandToDAP(command), "step")
    /\ UNCHANGED <<sessions, outputBuffer, initialized, completed, lastVariables,
                   lastWitnesses, breakpoints, procVars, fsVars, timeVars>>

\* the step request settled
StepResponded(s, k) ==
    LET f == task[s][k] IN
    /\ f.op = "step" /\ f.pc = "step" /\ Ready(f)
    /\ IF f.await = "rejected"
       THEN /\ SetTask(s, k, StepOuterCatch(s, f, "DAP request timeout"))
            /\ UNCHANGED listeners
       ELSE IF ~f.val.success
       THEN /\ SetTask(s, k, StepFailed(f, "Step command failed"))
            /\ UNCHANGED listeners
       ELSE waitForStoppedEvent(s, k, f, "stopped")
    /\ UNCHANGED <<sessions, seq, stdin, outputBuffer>>
    /\ UNCHANGED <<sessionVars, procVars, fsVars, timeVars>>

\* the wait for 'stopped' settled
StepStopped(s, k) ==
    LET f == task[s][k] IN
    /\ f.op = "step" /\ f.pc = "stopped" /\ Ready(f)
    /\ IF f.await = "rejected"
       THEN /\ SetTask(s, k, StepInnerCatch(s, f, "Timeout waiting for stopped event"))
            /\ UNCHANGED <<seq, stdin, listeners>>
       ELSE IF exitCode[s] # NULL
       THEN /\ SetTask(s, k, StepCompleted(f))
            /\ UNCHANGED <<seq, stdin, listeners>>
       ELSE sendDAPRequest(s, k, [f EXCEPT !.ev = f.val], "stackTrace", "state")
    /\ UNCHANGED <<sessions, outputBuffer, sessionVars, procVars, fsVars, timeVars>>

\* getCurrentDebugState settled: the state is built from the stopped event;
\* then the stack trace is fetched once more for the log
StepStateFetched(s, k) ==
    LET f == task[s][k] IN
    /\ f.op = "step" /\ f.pc = "state" /\ Ready(f)
    /\ IF f.await = "rejected"
       THEN /\ SetTask(s, k, StepInnerCatch(s, f, "DAP request timeout"))
            /\ UNCHANGED <<seq, stdin, listeners>>
       ELSE sendDAPRequest(s, k,
                [f EXCEPT !.result = Result(TRUE, "", "stopped", f.ev.cause, f.stepSeq)],
                "stackTrace", "stack")
    /\ UNCHANGED <<sessions, outputBuffer, sessionVars, procVars, fsVars, timeVars>>

\* the logging stack trace settled either way: cache variables and witnesses
StepStackLogged(s, k) ==
    LET f == task[s][k] IN
    /\ f.op = "step" /\ f.pc = "stack" /\ Ready(f)
    /\ StepCacheVariables(s, k, f)
    /\ UNCHANGED <<sessions, outputBuffer, initialized, completed, breakpoints>>
    /\ UNCHANGED <<procVars, fsVars, timeVars>>

\* ---------------------------------------------------------- setBreakpoints
\* setBreakpoints called by the controller, up to the await of its request
SetBreakpoints(s, k) ==
    /\ Quiescent
    /\ cleanupInterval
    /\ Addressed(s)
    /\ seq[s] <= MaxSeq
    /\ NewCall(s, k)
    /\ IF s \notin sessions \/ ~initialized[s]
       THEN /\ SetTask(s, k, Return(NewFrame("breakpoints"),
                       Result(FALSE, "Session not found or not initialized", "", 0, 0)))
            /\ UNCHANGED <<seq, stdin, listeners, lastActivity>>
       ELSE /\ Touch(s)
            /\ sendDAPRequest(s, k, NewFrame("breakpoints"), "setBreakpoints",
                              "breakpoints")
    /\ UNCHANGED <<sessions, outputBuffer, initialized, completed, lastVariables,
                   lastWitnesses, breakpoints, procVars, fsVars, timeVars>>

\* response.body.breakpoints of a setBreakpoints response with body b: body 0
\* has no such field, the others list the debugger's Breakpoint objects
BreakpointBodies == {0, 1, 2}

BodyBreakpoints(b) ==
    CASE b = 1 -> <<[id |-> 1, line |-> 1, verified |-> TRUE, message |-> ""]>>
      [] b = 2 -> <<[id |-> 1, line |-> 1, verified |-> FALSE, message |-> "no opcode"],
                    [id |-> 2, line |-> 2, verified |-> TRUE, message |-> ""]>>
      [] b \in WideBodies ->
                  <<[id |-> 1, line |-> 1, verified |-> FALSE, message |-> "ligne inconnue"]>>
      [] OTHER -> <<>>

\* response.body?.breakpoints?.map(bp => ({line, verified, message})) || []
verifiedBreakpoints(b) ==
    [i \in 1..Len(BodyBreakpoints(b)) |->
        [line     |-> BodyBreakpoints(b)[i].line,
         verified |-> BodyBreakpoints(b)[i].verified,
         message  |-> BodyBreakpoints(b)[i].message]]

\* variant: the verification results are added to the stored list
BreakpointsRespondedMerge(s, k) ==
    LET f == task[s][k] IN
    /\ f.op = "breakpoints" /\ f.pc = "breakpoints" /\ Ready(f)
    /\ IF f.await = "rejected"
       THEN /\ SetTask(s, k, Return(f, Result(FALSE, "DAP request timeout", "", 0, 0)))
            /\ UNCHANGED breakpoints
       ELSE IF ~f.val.success
       THEN /\ SetTask(s, k, Return(f, Result(FALSE, "Failed to set breakpoints", "", 0, 0)))
            /\ UNCHANGED breakpoints
       ELSE /\ breakpoints' = [breakpoints EXCEPT ![s] = @ \o verifiedBreakpoints(f.val.body)]
            /\ SetTask(s, k, Return(f, [Result(TRUE, "", "", 0, 0)
                                           EXCEPT !.value = verifiedBreakpoints(f.val.body)]))
    /\ UNCHANGED <<sessions, seq, stdin, outputBuffer, listeners>>
    /\ UNCHANGED <<initialized, completed, lastActivity, lastVariables, lastWitnesses>>
    /\ UNCHANGED <<procVars, fsVars, timeVars>>

\* the setBreakpoints request settled: store the verified breakpoints, return
BreakpointsResponded(s, k) ==
    LET f == task[s][k] IN
    /\ f.op = "breakpoints" /\ f.pc = "breakpoints" /\ Ready(f)
    /\ IF f.await = "rejected"
       THEN /\ SetTask(s, k, Return(f, Result(FALSE, "DAP request timeout", "", 0, 0)))
            /\ UNCHANGED breakpoints
       ELSE IF ~f.val.success
       THEN /\ SetTask(s, k, Return(f, Result(FALSE, "Failed to set breakpoints", "", 0, 0)))
            /\ UNCHANGED breakpoints
       ELSE /\ breakpoints' = [breakpoints EXCEPT ![s] = verifiedBreakpoints(f.val.body)]
            /\ SetTask(s, k, Return(f, [Result(TRUE, "", "", 0, 0)
                                           EXCEPT !.value = verifiedBreakpoints(f.val.body)]))
    /\ UNCHANGED <<sessions, seq, stdin, outputBuffer, listeners>>
    /\ UNCHANGED <<initialized, completed, lastActivity, lastVariables, lastWitnesses>>
    /\ UNCHANGED <<procVars, fsVars, timeVars>>

\* ---------------------------------------------------------- specifications
\* requests the debugger has read and not answered
Unanswered(s) == {i \in 1..Len(stdin[s]) : stdin[s][i].seq \notin answered[s]}

\* the debugger answers in the order of arrival
Oldest(s) == {i \in Unanswered(s) : \A j \in Unanswered(s) : i <= j}

\* the debugger answers a request at once; once it has left one unanswered it
\* stays silent
Newest(s) == {i \in {Len(stdin[s])} : Unanswered(s) = {i}}

\* chunk lengths: everything unread / any number of bytes
AllUnread(s) == {Len(stdout[s])} \ {0}
AnyLength(s) == 1..Len(stdout[s])

StartNext ==
    \/ \E s \in Primary : StartSession(s)
    \/ \E s \in SessionIds : StartProvisioned(s)
    \/ \E s \in SessionIds, ok \in BOOLEAN : StartCompiled(s, ok)
    \/ \E s \in SessionIds : StartInitialized(s)
    \/ \E s \in SessionIds : StartLaunched(s)
    \/ \E s \in SessionIds : StartConfigured(s)
    \/ \E s \in SessionIds : StartStopped(s)
    \/ \E s \in SessionIds : StartStateFetched(s)
    \/ \E s \in SessionIds : StartCleanedUp(s)

TerminateNext ==
    \/ \E s \in SessionIds, k \in CallSlots : TerminateDisconnected(s, k)
    \/ \E s \in SessionIds, k \in CallSlots : TerminateSigtermWaited(s, k)
    \/ \E s \in SessionIds, k \in CallSlots : TerminateSigkillWaited(s, k)
    \/ \E s \in SessionIds, k \in CallSlots : TerminateCleanedUp(s, k)

StepNext ==
    \/ \E s \in SessionIds, k \in CallSlots : StepResponded(s, k)
    \/ \E s \in SessionIds, k \in CallSlots : StepStopped(s, k)
    \/ \E s \in SessionIds, k \in CallSlots : StepStateFetched(s, k)
    \/ \E s \in SessionIds, k \in CallSlots : StepStackLogged(s, k)
    \/ \E s \in SessionIds, k \in CallSlots : VarsStackTrace(s, k)
    \/ \E s \in SessionIds, k \in CallSlots : VarsScopes(s, k)
    \/ \E s \in SessionIds, k \in CallSlots : VarsVariables(s, k)
    \/ \E s \in SessionIds, k \in CallSlots : WitStackTrace(s, k)
    \/ \E s \in SessionIds, k \in CallSlots : WitScopes(s, k)
    \/ \E s \in SessionIds, k \in CallSlots : WitVariables(s, k)

TimerNext ==
    \/ \E s \in SessionIds, k \in Slots : CallTimeout(s, k)
    \/ \E s \in SessionIds, k \in Slots : WaitTimeout(s, k)

\* Session lifecycle: start, terminate (controller, reaper, shutdown), exit of
\* the subprocess, grace timer.  The debugger answers in order; a chunk holds
\* everything unread.
\* The debugger installs no signal handler: once the service has signalled it,
\* it dies by the signal (SpecShutdown, SpecLookup, SpecReap and SpecPair also
\* let it exit with a code after SIGTERM).
Next ==
    \/ StartNext
    \/ \E s \in SessionIds, k \in 1..LifeSlots : TerminateSession(s, k)
    \/ TerminateNext
    \/ cleanupStaleSessions(LifeSlots)
    \/ onModuleDestroy(LifeSlots)
    \/ Tick
    \/ \E s \in SessionIds : \E i \in Oldest(s), ok \in BOOLEAN, b \in Bodies :
          ProcRespond(s, i, ok, b)
    \/ \E s \in SessionIds : \E c \in owed[s] : ProcStopped(s, c)
    \/ \E s \in SessionIds : ProcExit(s, signals[s] # <<>>)
    \/ \E s \in SessionIds : GraceTimerFire(s)
    \/ \E s \in SessionIds : \E n \in AllUnread(s) : StdoutData(s, n)
    \/ TimerNext

Spec == Init /\ [][Next]_vars

\* The state right after a startSession that succeeded: the debugger answered
\* initialize and launch, stopped at the entry, refused configurationDone and
\* answered the stack trace.  Spec reaches this state (ActiveReached).
HandshakeRequests ==
    <<DAPRequest(1, "initialize"), DAPRequest(2, "launch"),
      DAPRequest(3, "configurationDone"), DAPRequest(4, "stackTrace")>>

HandshakeOutput ==
    formatDAPMessage(DAPResponse(HandshakeRequests[1], TRUE, 1))
    \o formatDAPMessage(DAPResponse(HandshakeRequests[2], TRUE, 1))
    \o formatDAPMessage(StoppedEvent(2))
    \o formatDAPMessage(DAPResponse(HandshakeRequests[3], FALSE, 1))
    \o formatDAPMessage(DAPResponse(HandshakeRequests[4], TRUE, 1))

StartedFrame ==
    [NewFrame("start") EXCEPT !.pc = "returned", !.ev = StoppedEvent(2),
                              !.result = Result(TRUE, "", "stopped", 2, 0)]

\* the sessions of S have been started successfully, the others never
ActiveSessions(S) ==
    /\ sessions = S
    /\ initialized = [s \in SessionIds |-> s \in S]
    /\ completed = [s \in SessionIds |-> FALSE]
    /\ seq = [s \in SessionIds |-> IF s \in S THEN 5 ELSE 1]
    /\ lastActivity = [s \in SessionIds |-> 0]
    /\ outputBuffer = [s \in SessionIds |-> IF s \in S THEN HandshakeOutput ELSE <<>>]
    /\ lastVariables = [s \in SessionIds |-> 0]
    /\ lastWitnesses = [s \in SessionIds |-> 0]
    /\ breakpoints = [s \in SessionIds |-> <<>>]
    /\ workspace = [s \in SessionIds |-> IF s \in S THEN "present" ELSE "absent"]
    /\ cleanups = [s \in SessionIds |-> 0]
    /\ spawned = [s \in SessionIds |-> s \in S]
    /\ exitCode = [s \in SessionIds |-> NULL]
    /\ signalCode = [s \in SessionIds |-> NoSignal]
    /\ signals = [s \in SessionIds |-> <<>>]
    /\ stdin = [s \in SessionIds |-> IF s \in S THEN HandshakeRequests ELSE <<>>]
    /\ answered = [s \in SessionIds |-> IF s \in S THEN 1..4 ELSE {}]
    /\ owed = [s \in SessionIds |-> {}]
    /\ stdout = [s \in SessionIds |-> <<>>]
    /\ listeners = {}
    /\ graceTimer = [s \in SessionIds |-> FALSE]
    /\ cleanupInterval = TRUE
    /\ now = 0
    /\ task = [s \in SessionIds |->
                 [k \in Slots |-> IF s \in S /\ k = 0 THEN StartedFrame ELSE IdleFrame]]

ActiveState == ActiveSessions(Primary)

ActivePair == ActiveSessions(SessionIds)

ActiveReached == ~ActiveState

\* Stepping on an active session: executeStep with its state fetch and caching,
\* exit of the subprocess, grace timer.  The debugger answers in order; a chunk
\* holds everything unread.
NextStep ==
    \/ \E s \in SessionIds, k \in 1..StepSlots, c \in UserCommands : ExecuteStep(s, k, c)
    \/ StepNext
    \/ \E s \in SessionIds : \E i \in Oldest(s), ok \in BOOLEAN, b \in Bodies :
          ProcRespond(s, i, ok, b)
    \/ \E s \in SessionIds : \E c \in owed[s] : ProcStopped(s, c)
    \/ \E s \in SessionIds, bySignal \in BOOLEAN : ProcExit(s, bySignal)
    \/ \E s \in SessionIds : GraceTimerFire(s)
    \/ \E s \in SessionIds : \E n \in AllUnread(s) : StdoutData(s, n)
    \/ \E s \in SessionIds, k \in Slots : CallTimeout(s, k)

SpecStep == ActiveState /\ [][NextStep]_vars

\* Correlation on an active session: setBreakpoints calls in flight together,
\* answered in any order, stdout read in chunks of any length.
NextCorr ==
    \/ \E s \in SessionIds, k \in 1..CorrSlots : SetBreakpoints(s, k)
    \/ \E s \in SessionIds, k \in CallSlots : BreakpointsResponded(s, k)
    \/ \E s \in SessionIds : \E i \in Unanswered(s), ok \in BOOLEAN, b \in Bodies :
          ProcRespond(s, i, ok, b)
    \/ \E s \in SessionIds : \E n \in AnyLength(s) : StdoutData(s, n)
    \/ \E s \in SessionIds, k \in Slots : CallTimeout(s, k)

SpecCorr == ActiveState /\ [][NextCorr]_vars

\* Snapshots: executeStep with its caching, getVariables and getWitnessMap
\* called by the controller, exit of the subprocess.  While it lives the
\* debugger answers every request in order, in time and with success; a call
\* times out only once it has exited.
NextQuery ==
    \/ \E s \in SessionIds, k \in 1..StepSlots, c \in UserCommands : ExecuteStep(s, k, c)
    \/ StepNext
    \/ \E s \in SessionIds, k \in 1..StepSlots : GetVariables(s, k)
    \/ \E s \in SessionIds, k \in 1..StepSlots : GetWitnessMap(s, k)
    \/ \E s \in SessionIds : \E i \in Oldest(s), b \in Bodies :
          ProcRespond(s, i, TRUE, b)
    \/ \E s \in SessionIds, bySignal \in BOOLEAN : ProcExit(s, bySignal)
    \/ \E s \in SessionIds : \E n \in AllUnread(s) : StdoutData(s, n)
    \/ \E s \in SessionIds, k \in Slots : Exited(s) /\ CallTimeout(s, k)

SpecQuery == ActiveState /\ [][NextQuery]_vars

\* Reaping of an active session: the clock, the sweep and the terminateSession
\* calls it enters, setBreakpoints calls of the client that refresh
\* lastActivity, exit of the subprocess, grace timer.  The debugger answers in
\* order and with success, or not at all.
NextReap ==
    \/ cleanupStaleSessions(LifeSlots)
    \/ TerminateNext
    \/ Tick
    \/ \E s \in SessionIds, k \in 1..LifeSlots : SetBreakpoints(s, k)
    \/ \E s \in SessionIds, k \in CallSlots : BreakpointsResponded(s, k)
    \/ \E s \in SessionIds : \E i \in Oldest(s), b \in Bodies :
          ProcRespond(s, i, TRUE, b)
    \/ \E s \in SessionIds, bySignal \in BOOLEAN : ProcExit(s, bySignal)
    \/ \E s \in SessionIds : GraceTimerFire(s)
    \/ \E s \in SessionIds : \E n \in AllUnread(s) : StdoutData(s, n)
    \/ \E s \in SessionIds, k \in Slots : CallTimeout(s, k)

SpecReap == ActiveState /\ [][NextReap]_vars

\* Shutdown of an active session: onModuleDestroy, terminateSession calls of
\* the client, exit of the subprocess, grace timer.  The event loop keeps
\* running: the timers of terminateSession and of sendDAPRequest fire and the
\* file-system calls complete.
NextShutdown ==
    \/ onModuleDestroy(LifeSlots)
    \/ \E s \in SessionIds, k \in 1..LifeSlots : TerminateSession(s, k)
    \/ TerminateNext
    \/ \E s \in SessionIds : \E i \in Oldest(s), ok \in BOOLEAN, b \in Bodies :
          ProcRespond(s, i, ok, b)
    \/ \E s \in SessionIds, bySignal \in BOOLEAN : ProcExit(s, bySignal)
    \/ \E s \in SessionIds : GraceTimerFire(s)
    \/ \E s \in SessionIds : \E n \in AllUnread(s) : StdoutData(s, n)
    \/ \E s \in SessionIds, k \in Slots : CallTimeout(s, k)

EventLoopRuns ==
    /\ WF_vars(TerminateNext)
    /\ WF_vars(\E s \in SessionIds, k \in Slots : CallTimeout(s, k))

SpecShutdown == ActiveState /\ [][NextShutdown]_vars /\ EventLoopRuns

\* getVariables and getWitnessMap against a debugger whose answers may be
\* empty: body 0 is an empty list, WitnessMapScope a list with the 'Witness Map'
\* scope, OtherScope a list of scopes without it.
OtherScope == WitnessMapScope + 1

InspectBodies == {0, WitnessMapScope, OtherScope}

InspectNext ==
    \/ \E s \in SessionIds, k \in CallSlots : VarsStackTrace(s, k)
    \/ \E s \in SessionIds, k \in CallSlots : VarsScopes(s, k)
    \/ \E s \in SessionIds, k \in CallSlots : VarsVariables(s, k)
    \/ \E s \in SessionIds, k \in CallSlots : WitStackTrace(s, k)
    \/ \E s \in SessionIds, k \in CallSlots : WitScopes(s, k)
    \/ \E s \in SessionIds, k \in CallSlots : WitVariables(s, k)

NextInspect ==
    \/ \E s \in SessionIds, k \in 1..StepSlots : GetVariables(s, k)
    \/ \E s \in SessionIds, k \in 1..StepSlots : GetWitnessMap(s, k)
    \/ InspectNext
    \/ \E s \in SessionIds : \E i \in Oldest(s), ok \in BOOLEAN, b \in InspectBodies :
          ProcRespond(s, i, ok, b)
    \/ \E s \in SessionIds : \E n \in AllUnread(s) : StdoutData(s, n)
    \/ \E s \in SessionIds, k \in Slots : CallTimeout(s, k)

SpecInspect == ActiveState /\ [][NextInspect]_vars

\* executeStep with every command name
NextMap ==
    \/ \E s \in SessionIds, k \in 1..StepSlots, c \in StepCommands : ExecuteStep(s, k, c)
    \/ StepNext
    \/ \E s \in SessionIds : \E i \in Oldest(s), b \in Bodies :
          ProcRespond(s, i, TRUE, b)
    \/ \E s \in SessionIds : \E n \in AllUnread(s) : StdoutData(s, n)
    \/ \E s \in SessionIds, k \in Slots : CallTimeout(s, k)

SpecMap == ActiveState /\ [][NextMap]_vars

\* setBreakpoints calls answered in order with any list of results
NextBreak ==
    \/ \E s \in SessionIds, k \in 1..CorrSlots : SetBreakpoints(s, k)
    \/ \E s \in SessionIds, k \in CallSlots : BreakpointsResponded(s, k)
    \/ \E s \in SessionIds : \E i \in Oldest(s), ok \in BOOLEAN, b \in BreakpointBodies :
          ProcRespond(s, i, ok, b)
    \/ \E s \in SessionIds : \E n \in AllUnread(s) : StdoutData(s, n)
    \/ \E s \in SessionIds, k \in Slots : CallTimeout(s, k)

SpecBreak == ActiveState /\ [][NextBreak]_vars

\* Caching after a step: one executeStep at a time on a debugger that answers in
\* order, with success or failure; the requests of the caching may also go
\* unanswered until their timeout
NextCache ==
    \/ \E s \in SessionIds, c \in UserCommands : ExecuteStep(s, 1, c)
    \/ StepNext
    \/ \E s \in SessionIds : \E i \in Oldest(s), ok \in BOOLEAN, b \in Bodies :
          ProcRespond(s, i, ok, b)
    \/ \E s \in SessionIds : \E c \in owed[s] : ProcStopped(s, c)
    \/ \E s \in SessionIds : \E n \in AllUnread(s) : StdoutData(s, n)
    \/ \E s \in SessionIds, k \in Slots :
          task[s][k].pc \notin {"step", "state", "stack"} /\ CallTimeout(s, k)

SpecCache == ActiveState /\ [][NextCache]_vars

\* Framing: setBreakpoints calls answered in order, with results in ASCII or
\* with a character outside ASCII
NextFraming ==
    \/ \E s \in SessionIds, k \in 1..CorrSlots : SetBreakpoints(s, k)
    \/ \E s \in SessionIds, k \in CallSlots : BreakpointsResponded(s, k)
    \/ \E s \in SessionIds : \E i \in Oldest(s), b \in Bodies \cup WideBodies :
          ProcRespond(s, i, TRUE, b)
    \/ \E s \in SessionIds : \E n \in AllUnread(s) : StdoutData(s, n)
    \/ \E s \in SessionIds, k \in Slots : CallTimeout(s, k)

SpecFraming == ActiveState /\ [][NextFraming]_vars

\* Calls that name a session which has left the registry, next to the ways a
\* session leaves it, and getOpcodes on any session.
NextLookup ==
    \/ \E s \in SessionIds, k \in 1..LifeSlots : TerminateSession(s, k)
    \/ TerminateNext
    \/ \E s \in SessionIds, k \in 1..LifeSlots, c \in UserCommands :
          s \notin sessions /\ ExecuteStep(s, k, c)
    \/ \E s \in SessionIds, k \in 1..LifeSlots : s \notin sessions /\ GetVariables(s, k)
    \/ \E s \in SessionIds, k \in 1..LifeSlots : s \notin sessions /\ GetWitnessMap(s, k)
    \/ \E s \in SessionIds, k \in 1..LifeSlots : s \notin sessions /\ SetBreakpoints(s, k)
    \/ \E s \in SessionIds, k \in 1..LifeSlots : GetOpcodes(s, k)
    \/ \E s \in SessionIds : \E i \in Oldest(s), ok \in BOOLEAN, b \in Bodies :
          ProcRespond(s, i, ok, b)
    \/ \E s \in SessionIds, bySignal \in BOOLEAN : ProcExit(s, bySignal)
    \/ \E s \in SessionIds : GraceTimerFire(s)
    \/ \E s \in SessionIds : \E n \in AllUnread(s) : StdoutData(s, n)
    \/ \E s \in SessionIds, k \in Slots : CallTimeout(s, k)

SpecLookup == ActiveState /\ [][NextLookup]_vars

\* Two sessions side by side: the first one steps, the second one is inspected,
\* gets breakpoints, is terminated and exits; each has its own debugger.
Second == SessionIds \ Primary

NextPair ==
    \/ \E s \in Primary, c \in UserCommands : ExecuteStep(s, 1, c)
    \/ StepNext
    \/ \E s \in Second : GetVariables(s, 1)
    \/ \E s \in Second : SetBreakpoints(s, 1)
    \/ \E s \in SessionIds, k \in CallSlots : BreakpointsResponded(s, k)
    \/ \E s \in Second : TerminateSession(s, 1)
    \/ TerminateNext
    \/ \E s \in SessionIds : \E i \in Oldest(s), b \in Bodies :
          ProcRespond(s, i, TRUE, b)
    \/ \E s \in Second, bySignal \in BOOLEAN : ProcExit(s, bySignal)
    \/ \E s \in SessionIds : GraceTimerFire(s)
    \/ \E s \in SessionIds : \E n \in AllUnread(s) : StdoutData(s, n)
    \/ \E s \in SessionIds, k \in Slots : Exited(s) /\ CallTimeout(s, k)

SpecPair == ActivePair /\ [][NextPair]_vars

\* The handshake of startSession with calls that name the session before it is
\* initialized; the debugger answers in order, with success or failure, and
\* sends its 'initialized' event at a time of its choice.
NextHandshake ==
    \/ StartNext
    \/ \E s \in SessionIds, c \in UserCommands : ~initialized[s] /\ ExecuteStep(s, 1, c)
    \/ \E s \in SessionIds : ~initialized[s] /\ GetVariables(s, 1)
    \/ \E s \in SessionIds : ~initialized[s] /\ GetWitnessMap(s, 1)
    \/ \E s \in SessionIds : ~initialized[s] /\ SetBreakpoints(s, 1)
    \/ \E s \in SessionIds : \E i \in Oldest(s), ok \in BOOLEAN, b \in Bodies :
          ProcRespond(s, i, ok, b)
    \/ \E s \in SessionIds : \E c \in owed[s] : ProcStopped(s, c)
    \/ \E s \in SessionIds : ProcInitialized(s)
    \/ \E s \in SessionIds : \E n \in AllUnread(s) : StdoutData(s, n)
    \/ TimerNext

SpecHandshake == Init /\ [][NextHandshake]_vars

\* A start and one further service call of any kind on the session, against a
\* debugger that answers a request before the next one is written, or hangs
\* and answers nothing from then on, and may exit at any time.  The event loop keeps running: promise
\* continuations are resumed, file-system calls and the build complete, and the
\* timers of the service fire.
NextReturns ==
    \/ StartNext
    \/ \E s \in SessionIds, c \in UserCommands :
          task[s][1].pc = "idle" /\ ExecuteStep(s, 1, c)
    \/ \E s \in SessionIds : task[s][1].pc = "idle" /\ GetVariables(s, 1)
    \/ \E s \in SessionIds : task[s][1].pc = "idle" /\ GetWitnessMap(s, 1)
    \/ \E s \in SessionIds : task[s][1].pc = "idle" /\ SetBreakpoints(s, 1)
    \/ \E s \in SessionIds : task[s][1].pc = "idle" /\ TerminateSession(s, 1)
    \/ StepNext
    \/ \E s \in SessionIds, k \in CallSlots : BreakpointsResponded(s, k)
    \/ TerminateNext
    \/ \E s \in SessionIds : \E i \in Newest(s), b \in Bodies : ProcRespond(s, i, TRUE, b)
    \/ \E s \in SessionIds : \E c \in owed[s] : ProcStopped(s, c)
    \/ \E s \in SessionIds : ProcExit(s, signals[s] # <<>>)
    \/ \E s \in SessionIds : \E n \in AllUnread(s) : StdoutData(s, n)
    \/ TimerNext

CallbacksRun ==
    WF_vars(\/ \E s \in SessionIds :
                  \/ StartProvisioned(s)
                  \/ \E ok \in BOOLEAN : StartCompiled(s, ok)
                  \/ StartInitialized(s) \/ StartLaunched(s) \/ StartConfigured(s)
                  \/ StartStopped(s) \/ StartStateFetched(s) \/ StartCleanedUp(s)
            \/ StepNext
            \/ \E s \in SessionIds, k \in CallSlots : BreakpointsResponded(s, k)
            \/ TerminateNext
            \/ TimerNext)

SpecReturns == Init /\ [][NextReturns]_vars /\ CallbacksRun

\* ------------------------------------------------------------------ claims

\* C1: a sendDAPRequest call resolves only with a response that the subprocess
\* sent and whose request_seq is the seq the call wrote, however many calls
\* are in flight and in whatever order and chunks the responses arrive.
C1_ResponseMatchesCall ==
    LET Received(s) == parseAllDAPMessages(outputBuffer[s])
    IN
    \A s \in SessionIds, k \in Slots :
        LET f == task[s][k] IN
        (f.await = "resolved" /\ f.pc \in CallPcs) =>
            /\ f.val.type = "response"
            /\ f.val.request_seq = f.reqSeq
            /\ \E i \in 1..Len(Received(s)) : Received(s)[i] = f.val

\* two calls resolved by one chunk in which the later request was answered first
C1_Witness ==
    LET Received(s) == parseAllDAPMessages(outputBuffer[s])
    IN
    \E s \in SessionIds :
        /\ task[s][1].await = "resolved" /\ task[s][2].await = "resolved"
        /\ task[s][1].pc \in CallPcs /\ task[s][2].pc \in CallPcs
        /\ task[s][1].reqSeq < task[s][2].reqSeq
        /\ \E i, j \in 1..Len(Received(s)) :
              /\ i < j
              /\ Received(s)[i] = task[s][2].val
              /\ Received(s)[j] = task[s][1].val

\* C2: when terminateSession has run on a registered session and returned, the
\* workspace is removed and the entry is gone from the map, whether the process
\* had exited before, the disconnect failed, or SIGKILL was needed.
C2_TerminateRemoves ==
    \A s \in SessionIds, k \in Slots :
        LET f == task[s][k] IN
        (f.op = "terminate" /\ f.pc = "returned" /\ f.result.success) =>
            workspace[s] = "absent" /\ s \notin sessions

\* a terminateSession that returned after a failed disconnect and a SIGKILL
C2_Witness ==
    \E s \in SessionIds, k \in Slots :
        LET f == task[s][k] IN
        /\ f.op = "terminate" /\ f.pc = "returned" /\ f.result.success
        /\ f.result.error = "disconnect failed"
        /\ f.result.reason = "sigkill"
        /\ "SIGKILL" \in {signals[s][i] : i \in 1..Len(signals[s])}

\* C3: after startSession has returned a failure, the workspace is removed and
\* the registry holds no entry for the session.
C3_FailedStartLeavesNothing ==
    \A s \in SessionIds :
        LET f == task[s][0] IN
        (f.op = "start" /\ f.pc = "returned" /\ ~f.result.success) =>
            workspace[s] = "absent" /\ s \notin sessions

\* C4: a 'stopped' event is observed by at most one wait: no two invocations
\* have taken the same event from waitForStoppedEvent.
C4_StoppedObservedOnce ==
    \A s \in SessionIds, k1, k2 \in Slots :
        (k1 # k2 /\ task[s][k1].ev # NoMsg /\ task[s][k2].ev # NoMsg) =>
            task[s][k1].ev # task[s][k2].ev

\* C5: executeStep reports a stopped state only for a 'stopped' event that the
\* subprocess emitted after the step request was written.
C5_StepReportsItsOwnStop ==
    \A s \in SessionIds, k \in Slots :
        LET f == task[s][k] IN
        (f.op = "step" /\ f.pc = "returned" /\ f.result.success
            /\ f.result.reason = "stopped") =>
            f.result.cause >= f.result.req

\* C6: a message whose bytes arrive split over two chunks is dispatched to the
\* call pending on it once it is complete: no call stays pending while its
\* response has been received in full.
C6_SplitMessageDispatched ==
    LET Received(s) == parseAllDAPMessages(outputBuffer[s])
    IN
    \A s \in SessionIds, k \in Slots :
        LET f == task[s][k] IN
        (f.await = "pending" /\ f.pc \in CallPcs) =>
            FindResponse(Received(s), f.reqSeq) = NoMsg

\* C7: every session in the registry has an existing workspace directory.
C7_RegisteredHasWorkspace ==
    \A s \in sessions : workspace[s] = "present"

\* no invocation is in flight on s and startSession has returned

\* C8: the workspace of a session that has left the registry, by whichever
\* way, is removed: once nothing is in flight on it the directory is gone.
C8_WorkspaceRemovedAfterEviction ==
    LET Settled(s) ==
            /\ task[s][0].pc = "returned"
            /\ \A k \in Slots : Free(task[s][k])
    IN
    \A s \in SessionIds :
        (Settled(s) /\ s \notin sessions) => workspace[s] = "absent"

\* C9: cleanupWorkspace runs exactly once on the directory of a session: never
\* twice, and once by the time the session is gone and nothing is in flight.
C9_WorkspaceRemovedExactlyOnce ==
    LET Settled(s) ==
            /\ task[s][0].pc = "returned"
            /\ \A k \in Slots : Free(task[s][k])
    IN
    \A s \in SessionIds :
        /\ cleanups[s] <= 1
        /\ (Settled(s) /\ s \notin sessions) => cleanups[s] = 1

\* C10: a step during which the subprocess exited on its own returns success
\* with state.reason = 'completed'.
C10_ExitDuringStepCompletes ==
    \A s \in SessionIds, k \in Slots :
        LET f == task[s][k] IN
        (f.op = "step" /\ f.pc = "returned" /\ f.preExit /\ signals[s] = <<>>) =>
            f.result.success /\ f.result.reason = "completed"

\* C11: getVariables and getWitnessMap, called on a registered session that is
\* marked completed, write nothing to the subprocess and return at once with
\* success and the snapshot the steps cached in the session (0: the empty list).
C11_CompletedServedFromCache ==
    [][\A s \in SessionIds, k \in CallSlots :
          (/\ s \in sessions /\ completed[s]
           /\ Free(task[s][k])
           /\ task'[s][k] # task[s][k]
           /\ task'[s][k].op \in {"vars", "wit"}) =>
             /\ stdin' = stdin
             /\ task'[s][k].pc = "returned"
             /\ task'[s][k].result.success
             /\ task'[s][k].result.value =
                   IF task'[s][k].op = "vars" THEN lastVariables[s]
                   ELSE lastWitnesses[s]]_vars

\* getVariables has served the non-empty snapshot of a step after the exit
C11_Witness ==
    \E s \in SessionIds, k \in CallSlots :
        /\ completed[s]
        /\ task[s][k].op = "vars" /\ task[s][k].pc = "returned"
        /\ task[s][k].result.reason = "cached"
        /\ task[s][k].result.value \in Bodies
        /\ task[s][k].result.value = lastVariables[s]

C13_GraceEvictionAfterQuietPeriod ==
    [][LET ActivitySinceExit(s) ==
               \E k \in CallSlots :
                   /\ Active(task[s][k]) /\ ~task[s][k].preExit
                   /\ task[s][k].op # "terminate"
           GraceEviction(s) ==
               /\ graceTimer[s] /\ ~graceTimer'[s]
               /\ s \in sessions /\ s \notin sessions'
       IN
       \A s \in SessionIds :
          /\ (~Exited(s) /\ (exitCode'[s] # NULL \/ signalCode'[s] # NoSignal)) =>
                completed'[s] /\ (s \in sessions => s \in sessions')
          /\ GraceEviction(s) => completed[s] /\ ~ActivitySinceExit(s)]_vars

\* a session is gone: out of the registry, workspace removed, process dead
TerminatedFully(s) ==
    s \notin sessions /\ workspace[s] = "absent" /\ ~Alive(s)

C15_NoTimerAfterShutdown ==
    [][LET TerminateBegins(s, k) ==
               /\ task'[s][k] # task[s][k]
               /\ Free(task[s][k])
               /\ task'[s][k].op = "terminate"
           GraceTimerRuns(s) == graceTimer[s] /\ ~graceTimer'[s]
       IN
       ~cleanupInterval =>
          \A s \in SessionIds :
             /\ ~GraceTimerRuns(s)
             /\ \A k \in Slots : ~TerminateBegins(s, k)]_vars

\* C16: a sendDAPRequest call that timed out is rejected with its listener
\* removed, so every response listener on stdout belongs to a call still
\* pending on that seq; a response that arrives later resolves neither the
\* rejected call nor a call with another seq.
C16_TimedOutCallGetsNothing ==
    /\ [](LET ResponseListeners == {l \in listeners : l.kind = "response"}
          IN
          \A l \in ResponseListeners :
             /\ l.slot \in Slots
             /\ task[l.s][l.slot].await = "pending"
             /\ task[l.s][l.slot].pc \in CallPcs
             /\ task[l.s][l.slot].reqSeq = l.seq)
    /\ [](\A s \in SessionIds, k \in Slots :
             (task[s][k].await = "resolved" /\ task[s][k].pc \in CallPcs) =>
                task[s][k].val.request_seq = task[s][k].reqSeq)
    /\ [][\A s \in SessionIds, k \in Slots :
             (task[s][k].await = "rejected" /\ task[s][k].pc \in CallPcs) =>
                /\ ResponseListener(s, k, task[s][k].reqSeq) \notin listeners
                /\ task'[s][k].await = "resolved" =>
                      task'[s][k].reqSeq > task[s][k].reqSeq]_vars

\* the call with seq 5 has returned the timeout error, its response has been
\* received since, and the call with seq 6 holds its own response
C16_Witness ==
    LET Received(s) == parseAllDAPMessages(outputBuffer[s])
    IN
    \E s \in SessionIds :
        /\ Len(stdin[s]) = 6
        /\ task[s][1].pc = "returned"
        /\ task[s][1].result.error = "DAP request timeout"
        /\ FindResponse(Received(s), 5) # NoMsg
        /\ task[s][2].await = "resolved" /\ task[s][2].reqSeq = 6

\* C17: with the default configuration the timeout of a disconnect request is
\* strictly longer than the timeout of any other command, and a customTimeout
\* is applied whenever one is given.
C17_DisconnectTimeoutLongest ==
    LET CommandOf(s, n) ==
            LET i == CHOOSE i \in 1..Len(stdin[s]) : stdin[s][i].seq = n IN stdin[s][i].command
    IN
    \A s \in SessionIds, k \in Slots :
        LET f == task[s][k] IN
        (f.await = "pending" /\ f.pc \in CallPcs) =>
            /\ \A c \in Commands \ {"disconnect"} :
                  timeoutMs("disconnect", {}) > timeoutMs(c, {})
            /\ CommandOf(s, f.reqSeq) # "disconnect" =>
                  timeoutMs("disconnect", {}) > timeoutMs(CommandOf(s, f.reqSeq), {})
            /\ \A t \in {1, dapDisconnectTimeout, dapRequestTimeout + 1} :
                  timeoutMs(CommandOf(s, f.reqSeq), {t}) = t

\* C18: a response that matches a pending sendDAPRequest call resolves the
\* call with that response whatever its success flag, and a call is rejected
\* only by its timer, never in the turn that handles a chunk.
C18_FailureResponseResolves ==
    [][LET NewChunk(s) == SubSeq(outputBuffer'[s], Len(outputBuffer[s]) + 1, Len(outputBuffer'[s]))
           ResponsesFor(s, n) ==
               IF NewChunk(s) = <<>> THEN {}
               ELSE LET messages == parseAllDAPMessages(NewChunk(s)) IN
                    {messages[i] : i \in {j \in 1..Len(messages) :
                                             /\ messages[j].type = "response"
                                             /\ messages[j].request_seq = n}}
       IN
       \A s \in SessionIds, k \in Slots :
          LET f == task[s][k]
              g == task'[s][k]
          IN
          /\ (f.await = "pending" /\ f.pc \in CallPcs /\ ResponsesFor(s, f.reqSeq) # {}) =>
                g.await = "resolved" /\ g.val \in ResponsesFor(s, f.reqSeq)
          /\ (f.await # "rejected" /\ g.await = "rejected") =>
                f.await = "pending" /\ NewChunk(s) = <<>>]_vars

\* a call resolved with the response that reports the failure of its request
C18_Witness ==
    \E s \in SessionIds, k \in Slots :
        /\ task[s][k].await = "resolved" /\ task[s][k].pc \in CallPcs
        /\ task[s][k].val.request_seq = task[s][k].reqSeq
        /\ ~task[s][k].val.success

\* C19: waitForStoppedEvent entered while a 'stopped' event is in the session's
\* output buffer is resolved at once with that event; it registers no listener
\* and no chunk arrives in that turn.
C19_BufferedStoppedResolvesAtOnce ==
    [][LET EntersWaitForStopped(s, k) == task[s][k].pc # "stopped" /\ task'[s][k].pc = "stopped"
       IN
       \A s \in SessionIds, k \in Slots :
          (EntersWaitForStopped(s, k) /\ BufferedStopped(s) # NoMsg) =>
              /\ task'[s][k].await = "resolved"
              /\ task'[s][k].val = BufferedStopped(s)
              /\ listeners' = listeners
              /\ outputBuffer'[s] = outputBuffer[s]
              /\ stdout'[s] = stdout[s]]_vars

\* a step whose wait was settled by the event already in the buffer
C19_Witness ==
    \E s \in SessionIds, k \in Slots :
        /\ task[s][k].op = "step" /\ task[s][k].pc = "stopped"
        /\ task[s][k].await = "resolved"
        /\ task[s][k].val = BufferedStopped(s)
        /\ task[s][k].val # NoMsg
        /\ StoppedListener(s, k) \notin listeners

\* C20: when the build fails or times out, startSession spawns no debugger,
\* registers no session, removes the workspace and returns a failure from which
\* the client learns no session id.
C20_FailedBuildLeavesNothing ==
    LET BuildFailed(s) ==
            /\ task[s][0].op = "start"
            /\ task[s][0].pc \in {"cleanup", "returned"}
            /\ task[s][0].result.error = "Compilation failed"
    IN
    \A s \in SessionIds :
        BuildFailed(s) =>
            /\ ~spawned[s]
            /\ s \notin sessions
            /\ stdin[s] = <<>>
            /\ task[s][0].pc = "returned" =>
                  /\ workspace[s] = "absent"
                  /\ ~task[s][0].result.success
                  /\ ~ClientKnows(s)

\* startSession has returned the build failure and the workspace is gone
C20_Witness ==
    LET BuildFailed(s) ==
            /\ task[s][0].op = "start"
            /\ task[s][0].pc \in {"cleanup", "returned"}
            /\ task[s][0].result.error = "Compilation failed"
    IN
    \E s \in SessionIds :
        /\ BuildFailed(s) /\ task[s][0].pc = "returned"
        /\ workspace[s] = "absent" /\ cleanups[s] = 1

\* C21: within terminateSession disconnect is written first and only to an
\* initialized session whose process has not exited; SIGTERM goes only to a
\* process that is still alive; SIGKILL comes only after SIGTERM and the wait,
\* and only if the process has still not exited; no signal is sent to a
\* process that has exited.
C21_TerminateStepsGuarded ==
    [][LET SignalSent(s, sig) ==
               /\ Len(signals'[s]) = Len(signals[s]) + 1
               /\ signals'[s][Len(signals'[s])] = sig
           DisconnectWritten(s) ==
               /\ Len(stdin'[s]) = Len(stdin[s]) + 1
               /\ stdin'[s][Len(stdin'[s])].command = "disconnect"
       IN
       \A s \in SessionIds :
          /\ DisconnectWritten(s) =>
                initialized[s] /\ ~Exited(s) /\ signals'[s] = signals[s]
          /\ SignalSent(s, "SIGTERM") => ~Exited(s)
          /\ SignalSent(s, "SIGKILL") =>
                /\ ~Exited(s)
                /\ \E k \in Slots : task[s][k].op = "terminate" /\ task[s][k].pc = "sigterm"
                /\ "SIGTERM" \in {signals[s][i] : i \in 1..Len(signals[s])}]_vars

\* C22: executeStep, getVariables, getWitnessMap, getOpcodes, setBreakpoints and
\* terminateSession called with a session id that is not in the registry return
\* a failure at once, write nothing to a subprocess and change no session and
\* not the registry.
C22_UnknownSessionFails ==
    [][LET CallEntered(s, k) == Free(task[s][k]) /\ task'[s][k] # task[s][k]
       IN
       \A s \in SessionIds, k \in CallSlots :
          (CallEntered(s, k) /\ s \notin sessions) =>
              /\ task'[s][k].pc = "returned" /\ ~task'[s][k].result.success
              /\ task'[s][k].op \in {"step", "vars", "wit", "opcodes", "breakpoints",
                                     "terminate"}
              /\ UNCHANGED <<sessions, seq, stdin, outputBuffer, listeners>>
              /\ UNCHANGED <<sessionVars, procVars, fsVars>>]_vars

\* a call of each of the six operations has returned "not found"
C22_Witness ==
    LET NotFoundReturned(s, op) ==
            \E k \in CallSlots :
                /\ task[s][k].op = op /\ task[s][k].pc = "returned"
                /\ ~task[s][k].result.success
                /\ task[s][k].result.error \in {"Session not found",
                                                "Session not found or not initialized"}
    IN
    \E s \in SessionIds :
        /\ s \notin sessions
        /\ NotFoundReturned(s, "step")

\* C23: when the stack trace has no frames, the frame has no scopes, or no
\* scope is named 'Witness Map', getVariables / getWitnessMap return success
\* with an empty result and the session stays in the registry.
C23_NothingAvailableSucceeds ==
    [][LET NothingAvailable(f) ==
               /\ f.op \in {"vars", "wit"}
               /\ f.pc \in {"vars.stackTrace", "vars.scopes", "wit.stackTrace", "wit.scopes"}
               /\ f.await = "resolved" /\ f.val.success
               /\ f.val.body = 0 \/ (f.pc = "wit.scopes" /\ f.val.body # WitnessMapScope)
       IN
       \A s \in SessionIds, k \in CallSlots :
          (NothingAvailable(task[s][k]) /\ task'[s][k] # task[s][k]) =>
              /\ task'[s][k].pc = "returned"
              /\ task'[s][k].result.success
              /\ task'[s][k].result.value = 0
              /\ s \in sessions']_vars

\* C24: getOpcodes on a registered, initialized session, running or
\* completed, returns success with an empty opcode list and writes no request
\* to the subprocess.
C24_OpcodesAlwaysEmpty ==
    [][LET CallEntered(s, k) == Free(task[s][k]) /\ task'[s][k] # task[s][k]
           OpcodesEntered(s, k) == CallEntered(s, k) /\ task'[s][k].op = "opcodes"
       IN
       \A s \in SessionIds, k \in CallSlots :
          (OpcodesEntered(s, k) /\ s \in sessions /\ initialized[s]) =>
              /\ task'[s][k].pc = "returned"
              /\ task'[s][k].result.success
              /\ task'[s][k].result.value = 0
              /\ UNCHANGED <<sessions, seq, stdin, listeners, outputBuffer>>]_vars

\* getOpcodes has returned the empty list for a completed session that is
\* still registered
C24_Witness ==
    \E s \in SessionIds, k \in CallSlots :
        /\ s \in sessions /\ completed[s]
        /\ ~task[s][k].preExit
        /\ task[s][k].op = "opcodes" /\ task[s][k].pc = "returned"
        /\ task[s][k].result.success /\ task[s][k].result.value = 0

\* C25: a successful setBreakpoints replaces the stored breakpoint list by the
\* verification results of that call, one entry (line, verified, message) per
\* result of the subprocess, and succeeds also with unverified entries; nothing
\* of earlier calls is kept; a failed call leaves the stored list unchanged.
C25_BreakpointsReplaced ==
    [][LET BreakpointsSettles(s, k) ==
               /\ task[s][k].op = "breakpoints" /\ task[s][k].pc = "breakpoints"
               /\ Ready(task[s][k])
               /\ task'[s][k] # task[s][k]
           ReportedBreakpoints(m) ==
               [i \in 1..Len(BodyBreakpoints(m.body)) |->
                   [line     |-> BodyBreakpoints(m.body)[i].line,
                    verified |-> BodyBreakpoints(m.body)[i].verified,
                    message  |-> BodyBreakpoints(m.body)[i].message]]
       IN
       \A s \in SessionIds :
          /\ \A k \in CallSlots :
                BreakpointsSettles(s, k) =>
                    IF task[s][k].await = "resolved" /\ task[s][k].val.success
                    THEN /\ task'[s][k].result.success
                         /\ breakpoints'[s] = ReportedBreakpoints(task[s][k].val)
                         /\ task'[s][k].result.value = breakpoints'[s]
                    ELSE /\ ~task'[s][k].result.success
                         /\ breakpoints'[s] = breakpoints[s]
          /\ breakpoints'[s] # breakpoints[s] =>
                \E k \in CallSlots : BreakpointsSettles(s, k)]_vars

\* a second successful call has replaced a stored list of two entries, one of
\* them unverified, by a list of one
C25_Witness ==
    \E s \in SessionIds, j, k \in CallSlots :
        /\ j # k
        /\ task[s][j].op = "breakpoints" /\ task[s][j].pc = "returned"
        /\ task[s][j].result.success /\ Len(task[s][j].result.value) = 2
        /\ task[s][k].op = "breakpoints" /\ task[s][k].pc = "returned"
        /\ task[s][k].result.success /\ Len(task[s][k].result.value) = 1
        /\ breakpoints[s] = task[s][k].result.value

\* C26: into is sent as stepIn, out as stepOut, over, step and next as next,
\* continue as continue and any other command name unchanged; executeStep
\* writes exactly one request, which carries the mapped command.
C26_StepCommandMapping ==
    /\ [](LET ExpectedDAPCommand(command) ==
                  IF command = "into" THEN "stepIn"
                  ELSE IF command = "out" THEN "stepOut"
                  ELSE IF command \in {"over", "step", "next"} THEN "next"
                  ELSE command
          IN
          \A c \in StepCommands : mapStepCommandToDAP(c) = ExpectedDAPCommand(c))
    /\ [][LET CallEntered(s, k) == Free(task[s][k]) /\ task'[s][k] # task[s][k]
              ExpectedDAPCommand(command) ==
                  IF command = "into" THEN "stepIn"
                  ELSE IF command = "out" THEN "stepOut"
                  ELSE IF command \in {"over", "step", "next"} THEN "next"
                  ELSE command
              StepEntered(s, k) == CallEntered(s, k) /\ task'[s][k].op = "step" /\ task'[s][k].pc = "step"
          IN
          \A s \in SessionIds, k \in CallSlots :
             StepEntered(s, k) =>
                 /\ Len(stdin'[s]) = Len(stdin[s]) + 1
                 /\ stdin'[s][Len(stdin'[s])].command \in
                        {ExpectedDAPCommand(c) : c \in StepCommands}]_vars

\* C27: a session's seq starts at 1; every request written to the subprocess
\* carries a seq strictly greater than all earlier ones of the session, also
\* after calls that timed out or failed, so no two pending calls of a session
\* wait for the same seq.
C27_SeqNeverReused ==
    LET PendingCall(s, k) == task[s][k].pc \in CallPcs /\ task[s][k].await = "pending"
    IN
    \A s \in SessionIds :
        /\ stdin[s] # <<>> => stdin[s][1].seq = 1
        /\ \A i, j \in 1..Len(stdin[s]) : i < j => stdin[s][i].seq < stdin[s][j].seq
        /\ \A i \in 1..Len(stdin[s]) : stdin[s][i].seq < seq[s]
        /\ seq[s] >= 1
        /\ \A j, k \in Slots :
              (j # k /\ PendingCall(s, j) /\ PendingCall(s, k)) =>
                  task[s][j].reqSeq # task[s][k].reqSeq

\* a request was written after an earlier call had timed out unanswered
C27_Witness ==
    LET PendingCall(s, k) == task[s][k].pc \in CallPcs /\ task[s][k].await = "pending"
    IN
    \E s \in SessionIds :
        \E i \in 1..Len(stdin[s]) :
            /\ i < Len(stdin[s])
            /\ stdin[s][i].seq \notin answered[s]
            /\ \A k \in Slots : ~(PendingCall(s, k) /\ task[s][k].reqSeq = stdin[s][i].seq)
            /\ stdin[s][Len(stdin[s])].seq > stdin[s][i].seq

\* C28: a failure or a timeout of the configurationDone request does not fail
\* startSession: the handshake goes on to the wait for the first stopped event,
\* and the start can still succeed.
C28_ConfigurationDoneOptional ==
    [][LET ConfigurationDoneSettles(s) ==
               /\ task[s][0].op = "start" /\ task[s][0].pc = "configurationDone"
               /\ Ready(task[s][0])
               /\ task'[s][0] # task[s][0]
       IN
       \A s \in SessionIds :
          ConfigurationDoneSettles(s) =>
              /\ task'[s][0].op = "start" /\ task'[s][0].pc = "stopped"
              /\ task'[s][0].await \in {"pending", "resolved"}]_vars

\* startSession has succeeded although the debugger refused configurationDone
C28_Witness ==
    \E s \in SessionIds :
        LET refusal == formatDAPMessage(DAPResponse(HandshakeRequests[3], FALSE, 1)) IN
        /\ ClientKnows(s) /\ initialized[s]
        /\ \E i \in 0..(Len(outputBuffer[s]) - Len(refusal)) :
              SubSeq(outputBuffer[s], i + 1, i + Len(refusal)) = refusal

C30_SessionsIsolated ==
    [][LET OwnState(s) ==
               <<seq[s], outputBuffer[s], initialized[s], completed[s], lastVariables[s],
                 lastWitnesses[s], breakpoints[s], s \in sessions>>
           Activity(s) ==
               <<task[s], stdin[s], stdout[s], exitCode[s], signalCode[s], signals[s],
                 graceTimer[s], lastActivity[s], workspace[s], OwnState(s)>>
       IN
       \A s, r \in SessionIds :
          (s # r /\ Activity(s)' # Activity(s)) => OwnState(r)' = OwnState(r)]_vars

\* one session has stepped and is running; the other got breakpoints, exited
\* and was terminated
C30_Witness ==
    \E s, r \in SessionIds :
        /\ s # r
        /\ r \notin sessions /\ completed[r] /\ breakpoints[r] # <<>>
        /\ s \in sessions /\ ~completed[s] /\ breakpoints[s] = <<>>
        /\ seq[s] > seq[r]
        /\ \E k \in CallSlots :
              /\ task[s][k].op = "step" /\ task[s][k].pc = "returned"
              /\ task[s][k].result.success

\* C31: a waitForStoppedEvent whose listener is registered when a chunk with a
\* 'stopped' event arrives resolves with the first 'stopped' event of that
\* chunk, wherever the event sits in the chunk, and its listener is removed.
C31_ListenerResolvesOnFirstStopped ==
    [][\A s \in SessionIds, k \in Slots :
          LET n == Len(stdout[s]) - Len(stdout'[s])
              chunk == IF n > 0 THEN SubSeq(stdout[s], 1, n) ELSE <<>>
              stoppedEvent == FindStopped(parseAllDAPMessages(chunk))
          IN  (/\ StoppedListener(s, k) \in listeners
               /\ n > 0 /\ outputBuffer'[s] = outputBuffer[s] \o chunk
               /\ stoppedEvent # NoMsg) =>
                  /\ StoppedListener(s, k) \notin listeners'
                  /\ task'[s][k].await = "resolved"
                  /\ task'[s][k].val = stoppedEvent]_vars

\* C32: startSession writes initialize, launch, configurationDone in this
\* order; launch is written only after initialize returned success;
\* session.initialized becomes true only after launch succeeded, the first
\* 'stopped' event was received and the initial state was fetched; until then
\* executeStep, getVariables, getWitnessMap and setBreakpoints on the session
\* are refused and write nothing to the subprocess.
C32_HandshakeOrdered ==
    /\ [](\A s \in SessionIds : \A i \in 1..Len(stdin[s]) :
            /\ i = 1 => stdin[s][i].command = "initialize"
            /\ i = 2 => stdin[s][i].command = "launch"
            /\ i = 3 => stdin[s][i].command = "configurationDone")
    /\ [][\A s \in SessionIds :
            LET sent == IF Len(stdin'[s]) > Len(stdin[s])
                        THEN stdin'[s][Len(stdin'[s])].command ELSE ""
                launched == \E i \in 1..Len(stdin[s]) :
                    /\ stdin[s][i].command = "launch"
                    /\ FindResponse(parseAllDAPMessages(outputBuffer[s]),
                                    stdin[s][i].seq).success
            IN  /\ sent = "launch" =>
                      /\ task[s][0].await = "resolved"
                      /\ task[s][0].val.type = "response"
                      /\ task[s][0].val.command = "initialize"
                      /\ task[s][0].val.success
                /\ (~initialized[s] /\ initialized'[s]) =>
                      /\ launched
                      /\ task[s][0].ev.type = "event" /\ task[s][0].ev.event = "stopped"
                      /\ task[s][0].pc = "state" /\ task[s][0].await = "resolved"
                /\ \A k \in CallSlots :
                      (~initialized[s] /\ Free(task[s][k]) /\ task'[s][k] # task[s][k]) =>
                          /\ task'[s][k].pc = "returned"
                          /\ ~task'[s][k].result.success
                          /\ stdin'[s] = stdin[s] /\ seq'[s] = seq[s]]_vars

\* a call on the session was refused during the handshake, and the handshake
\* went on to initialize the session
C32_Witness ==
    \E s \in SessionIds, k \in CallSlots :
        /\ initialized[s]
        /\ task[s][k].pc = "returned" /\ ~task[s][k].result.success
        /\ Len(stdin[s]) = 4

\* C33: startSession marks the session initialized only after the 'initialized'
\* event of the subprocess has been received.
C33_InitializedEventAwaited ==
    \A s \in SessionIds :
        initialized[s] =>
            \E i \in 1..Len(parseAllDAPMessages(outputBuffer[s])) :
                parseAllDAPMessages(outputBuffer[s])[i] = InitializedEvent

\* C34: parsing the concatenation of formatDAPMessage(m1) .. formatDAPMessage(mn)
\* with parseAllDAPMessages returns exactly m1 .. mn in order, also when a
\* payload holds characters that UTF-8 encodes in more than one byte: the
\* messages sent to the service so far parse as the handshake messages, and
\* every message the debugger appends to them parses as one more message.
C34_FramingRoundTrip ==
    /\ [](parseAllDAPMessages(HandshakeOutput) =
             <<DAPResponse(HandshakeRequests[1], TRUE, 1),
               DAPResponse(HandshakeRequests[2], TRUE, 1), StoppedEvent(2),
               DAPResponse(HandshakeRequests[3], FALSE, 1),
               DAPResponse(HandshakeRequests[4], TRUE, 1)>>)
    /\ [][\A s \in SessionIds : \A i \in 1..Len(stdin[s]), b \in Bodies \cup WideBodies :
            LET m    == DAPResponse(stdin[s][i], TRUE, b)
                sent == outputBuffer[s] \o stdout[s]
            IN  stdout'[s] = stdout[s] \o formatDAPMessage(m) =>
                   parseAllDAPMessages(sent \o formatDAPMessage(m)) =
                      Append(parseAllDAPMessages(sent), m)]_vars

\* C35: the cached lastVariables / lastWitnesses of a session change only when
\* a step's fetch of them ended with a successful 'variables' response, whose
\* body is then stored; and a step that has reached the caching returns its
\* successful stopped state whatever the two fetches give.
C35_CacheFailureHarmless ==
    [][\A s \in SessionIds :
          LET caching == {"vars.stackTrace", "vars.scopes", "vars.variables",
                          "wit.stackTrace", "wit.scopes", "wit.variables"}
              fetched(k, pc) ==
                  /\ task[s][k].op = "step" /\ task[s][k].pc = pc
                  /\ task[s][k].await = "resolved" /\ task[s][k].val.success
          IN  /\ lastVariables'[s] # lastVariables[s] =>
                    \E k \in CallSlots : /\ fetched(k, "vars.variables")
                                         /\ lastVariables'[s] = task[s][k].val.body
              /\ lastWitnesses'[s] # lastWitnesses[s] =>
                    \E k \in CallSlots : /\ fetched(k, "wit.variables")
                                         /\ lastWitnesses'[s] = task[s][k].val.body
              /\ \A k \in CallSlots :
                    (/\ task[s][k].op = "step" /\ task[s][k].pc \in caching
                     /\ task'[s][k].pc = "returned") =>
                        /\ task'[s][k].result.success
                        /\ task'[s][k].result.reason = "stopped"]_vars

\* a step has returned its stopped state; the variables could not be fetched
\* and the cache of them is as it was, the witnesses were fetched and cached
C35_Witness ==
    \E s \in SessionIds, k \in CallSlots :
        /\ task[s][k].op = "step" /\ task[s][k].pc = "returned"
        /\ task[s][k].result.success /\ task[s][k].result.reason = "stopped"
        /\ lastVariables[s] = 0 /\ lastWitnesses[s] \in Bodies

\* C36: at the moment startSession returns success, the session it reports is
\* in the registry and initialized, whatever happened during the handshake.
C36_StartedSessionRegistered ==
    [][\A s \in SessionIds :
          (/\ task[s][0].op = "start" /\ task[s][0].pc # "returned"
           /\ task'[s][0].pc = "returned" /\ task'[s][0].result.success) =>
              s \in sessions' /\ initialized'[s]]_vars

\* C37: a call or a wait that has finished, by match or by timeout, has removed
\* its stdout listener: the listeners registered on a session are never more
\* than the sendDAPRequest calls and waitForStoppedEvent waits pending on it.
C37_ListenersBelongToPending ==
    \A s \in SessionIds :
        Cardinality({l \in listeners : l.s = s}) <=
            Cardinality({k \in Slots : /\ task[s][k].await = "pending"
                                       /\ task[s][k].pc \in CallPcs \cup {"stopped"}})

\* C38: once startSession has returned a failure after it had spawned the
\* debugger, that subprocess is not running.
C38_FailedStartLeavesNoProcess ==
    \A s \in SessionIds :
        (/\ task[s][0].op = "start" /\ task[s][0].pc = "returned"
         /\ ~task[s][0].result.success /\ spawned[s]) =>
            ~Alive(s)

\* C39: every call of startSession, executeStep, getVariables, getWitnessMap,
\* setBreakpoints and terminateSession eventually returns its result, also when
\* the subprocess never answers or has died.
C39_EveryCallReturns ==
    \A s \in SessionIds, k \in Slots : Active(task[s][k]) ~> Free(task[s][k])

\* an executeStep has returned although its step request was never answered
C39_Witness ==
    \E s \in SessionIds, k \in CallSlots :
        /\ task[s][k].op = "step" /\ task[s][k].pc = "returned"
        /\ task[s][k].stepSeq > 0 /\ task[s][k].stepSeq \notin answered[s]

====
